---- MODULE Spec2Model ----
(***************************************************************************)
(* Model of the websocket gateway configured by configureWebSocketServices *)
(* (src/unnamed/part_000): the per-socket maps, the connect_document       *)
(* pipeline with its suspension points, the submitOp / submitSignal        *)
(* handlers, the disconnect handler and the protocol-version negotiator.   *)
(***************************************************************************)
EXTENDS Integers, Sequences, FiniteSets, TLC

(***************************************************************************)
(* Bounds of the model.                                                    *)
(***************************************************************************)
\* connect_document requests the process receives in one behaviour
MaxConnects == 2
\* longest list of version ranges a client offers to the negotiator
MaxVersions == 3

(***************************************************************************)
(* Protocol-version negotiation (lines 106-116, 273-283).                  *)
(* A range "^a.b.c" is the triple <<a, b, c>>; a version is a triple too.  *)
(***************************************************************************)
VersionLt(a, b) ==
    \/ a[1] < b[1]
    \/ a[1] = b[1] /\ a[2] < b[2]
    \/ a[1] = b[1] /\ a[2] = b[2] /\ a[3] < b[3]

\* the exclusive upper end of the caret range ^a.b.c
CaretUpper(r) ==
    IF r[1] > 0 THEN <<r[1] + 1, 0, 0>>
    ELSE IF r[2] > 0 THEN <<0, r[2] + 1, 0>>
    ELSE <<0, 0, r[3] + 1>>

\* semver.intersects on two caret ranges: [r1, up(r1)) meets [r2, up(r2))
intersects(r1, r2) ==
    VersionLt(r1, CaretUpper(r2)) /\ VersionLt(r2, CaretUpper(r1))

protocolVersions == << <<0, 4, 0>>, <<0, 3, 0>>, <<0, 2, 0>>, <<0, 1, 0>> >>

\* what selectProtocolVersion returns when its loops fall through (undefined)
NoVersion == <<>>

\* the inner loop: the first server range that intersects connectVersion
FirstProtocolMatch(connectVersion) ==
    LET hits == {j \in 1..Len(protocolVersions) :
                    intersects(protocolVersions[j], connectVersion)}
    IN IF hits = {} THEN NoVersion
       ELSE protocolVersions[CHOOSE j \in hits : \A k \in hits : j <= k]

\* a plausible slip: the loops nested the other way round
\* (server ranges outermost, client ranges innermost)
selectProtocolVersionServerFirst(connectVersions) ==
    LET hits == {j \in 1..Len(protocolVersions) :
                    \E i \in 1..Len(connectVersions) :
                        intersects(protocolVersions[j], connectVersions[i])}
    IN IF hits = {} THEN NoVersion
       ELSE protocolVersions[CHOOSE j \in hits : \A k \in hits : j <= k]

\* the outer loop runs over the client's ranges, in the client's order
selectProtocolVersion(connectVersions) ==
    LET hits == {i \in 1..Len(connectVersions) :
                    FirstProtocolMatch(connectVersions[i]) # NoVersion}
    IN IF hits = {} THEN NoVersion
       ELSE FirstProtocolMatch(
                connectVersions[CHOOSE i \in hits : \A k \in hits : i <= k])

\* message.versions: absent, or a list (an empty list is a list)
NoVersions == [given |-> FALSE, list |-> <<>>]
GivenVersions(list) == [given |-> TRUE, list |-> list]

\* line 273: message.versions ? message.versions : ["^0.1.0"]
\* (every array, the empty one included, is truthy)
ConnectVersionsOf(versions) ==
    IF versions.given THEN versions.list ELSE << <<0, 1, 0>> >>

\* lines 273-283: the version, or the rejection with code 400
Negotiate(versions) ==
    LET version == selectProtocolVersion(ConnectVersionsOf(versions))
    IN IF version = NoVersion
       THEN [rejected |-> TRUE, code |-> 400, version |-> NoVersion]
       ELSE [rejected |-> FALSE, code |-> 0, version |-> version]

(***************************************************************************)
(* Scopes, roles and rooms (lines 44-81, 176-184).                         *)
(***************************************************************************)
DocRead == "doc:read"
DocWrite == "doc:write"
SummaryWrite == "summary:write"

summarizerClientType == "summarizer"

\* the scope helpers of the services-client package
canWrite(scopes) == DocWrite \in scopes
canSummarize(scopes) == SummaryWrite \in scopes

hasWriteAccess(scopes) == canWrite(scopes) \/ canSummarize(scopes)

\* a plausible slip: the requested mode is not consulted
isWriterIgnoringMode(scopes, mode) == hasWriteAccess(scopes)

isWriter(scopes, mode) ==
    IF hasWriteAccess(scopes) THEN mode = "write" ELSE FALSE

getRoomId(room) == room.tenantId \o "/" \o room.documentId

getClientRoomId(clientId) == "client#" \o clientId

\* generateClientId: a fresh identifier for the r-th connect of the process
generateClientId(r) == "c" \o ToString(r)

NoClientId == ""

NoRoom == [tenantId |-> "", documentId |-> ""]

(***************************************************************************)
(* A JavaScript Map: its entries in insertion order.                       *)
(***************************************************************************)
MapKeys(m) == {m[i].key : i \in 1..Len(m)}
MapHas(m, k) == k \in MapKeys(m)
MapGet(m, k) == m[CHOOSE i \in 1..Len(m) : m[i].key = k].value
MapSet(m, k, v) ==
    IF MapHas(m, k)
    THEN [i \in 1..Len(m) |->
            IF m[i].key = k THEN [key |-> k, value |-> v] ELSE m[i]]
    ELSE Append(m, [key |-> k, value |-> v])

(***************************************************************************)
(* Errors (lines 72-77, 209-215, 225-232, 275-294).                        *)
(***************************************************************************)
Error(code, message, retryAfter) ==
    [code |-> code, message |-> message, retryAfter |-> retryAfter]

NoError == Error(0, "", 0)

\* a plausible slip: the collaborator's own error is passed on to the client
CollaboratorError == Error(503, "registry unavailable", 0)

\* what handleServerError rejects with
ServerError == Error(500, "Failed to connect client to document.", 0)

MissingTokenError == Error(403, "Must provide an authorization token", 0)

\* validateTokenClaims throws on a token whose claims do not match the envelope
InvalidClaimsError == Error(401, "Invalid token", 0)

\* the tenant manager rejects the token and the error carries no response
TenantRejectError == Error(401, "Invalid token", 0)

ProtocolError == Error(400, "Unsupported client protocol.", 0)

TooManyClientsError ==
    Error(429, "Too Many Clients Connected to Document", 5 * 60)

\* validateTokenClaimsExpiration throws on an expired or over-long token
ExpiredTokenError == Error(401, "Invalid token expiry", 0)

\* the ThrottlingError a rate limiter throws when its limit is exceeded
ThrottlingError == Error(429, "throttled", 1)

(***************************************************************************)
(* checkThrottle (lines 121-150). The limiter is absent, or its            *)
(* incrementCount returns, throws a ThrottlingError, or throws otherwise.  *)
(***************************************************************************)
ThrottleOutcomes == {"absent", "ok", "exceeded", "fault"}

\* a plausible slip: every failure of incrementCount is returned as a
\* throttling error (fail-closed)
checkThrottleFailClosed(outcome) ==
    IF outcome \in {"exceeded", "fault"} THEN ThrottlingError ELSE NoError

checkThrottle(outcome) ==
    IF outcome = "exceeded" THEN ThrottlingError ELSE NoError

(***************************************************************************)
(* IConnect messages. A token is absent or carries its claims; the client  *)
(* descriptor carries its details.type and the scopes the client asserts.  *)
(***************************************************************************)
Claims(tenantId, documentId, scopes, lifetime) ==
    [tenantId |-> tenantId, documentId |-> documentId, scopes |-> scopes,
     lifetime |-> lifetime]

NoToken == [present |-> FALSE, claims |-> Claims("", "", {}, 0)]
Token(claims) == [present |-> TRUE, claims |-> claims]

Connect(documentId, token, clientType, versions, mode) ==
    [tenantId |-> "t", id |-> documentId, token |-> token,
     client |-> [details |-> [type |-> clientType],
                 scopes |-> {DocRead, DocWrite, SummaryWrite}],
     versions |-> versions, mode |-> mode]

NoMessage == Connect("", NoToken, "", NoVersions, "")

AllScopes == {DocRead, DocWrite, SummaryWrite}
V04 == GivenVersions(<< <<0, 4, 0>> >>)

\* the connect_document messages the model's clients send
Messages ==
    { \* a container with every scope asks to write, offering its oldest
      \* range first
      Connect("d", Token(Claims("t", "d", AllScopes, 1)), "container",
              GivenVersions(<< <<0, 1, 0>>, <<0, 4, 0>> >>), "write"),
      \* a summarizer with every scope asks to write
      Connect("d", Token(Claims("t", "d", AllScopes, 2)),
              summarizerClientType, V04, "write"),
      \* a container whose only write scope is SummaryWrite asks to write
      Connect("e", Token(Claims("t", "e", {DocRead, SummaryWrite}, 2)),
              "container", V04, "write"),
      \* a write-capable container asks to read
      Connect("d", Token(Claims("t", "d", {DocRead, DocWrite}, 2)),
              "container", NoVersions, "read"),
      \* no server range intersects the offered one
      Connect("d", Token(Claims("t", "d", AllScopes, 1)), "container",
              GivenVersions(<< <<9, 0, 0>> >>), "write"),
      \* an expired token
      Connect("d", Token(Claims("t", "d", {DocRead, DocWrite}, 0)),
              "container", V04, "write"),
      \* no token
      Connect("d", NoToken, "container", V04, "write"),
      \* a token issued for another document
      Connect("d", Token(Claims("t", "e", AllScopes, 1)), "container",
              V04, "write") }

\* validateTokenClaims(token, message.id, message.tenantId): the claims of
\* the token must name the document and tenant of the envelope
TokenClaimsValid(message) ==
    /\ message.token.claims.documentId = message.id
    /\ message.token.claims.tenantId = message.tenantId

\* validateTokenClaimsExpiration(claims, maxTokenLifetimeSec): throws on an
\* expired token, otherwise the remaining lifetime in milliseconds
TokenExpired(claims) == claims.lifetime <= 0
LifeTimeMSec(claims) == claims.lifetime * 1000

\* lines 254-265: the client descriptor the server composes
NoMessageClient == [details |-> [type |-> ""], scopes |-> {}]

\* a plausible slip: the claims' scopes are taken over unfiltered
ComposeClientUnfiltered(message, claims) ==
    [details |-> message.client.details, scopes |-> claims.scopes]

ComposeClient(message, claims) ==
    LET isSummarizer == message.client.details.type = summarizerClientType
    IN [details |-> message.client.details,
        scopes |-> IF ~isSummarizer
                   THEN {scope \in claims.scopes : scope # SummaryWrite}
                   ELSE claims.scopes]

(***************************************************************************)
(* State.                                                                  *)
(***************************************************************************)
Sockets == {"s1", "s2"}
Requests == 1..MaxConnects

\* configuration: the per-document cap on registered clients
maxNumberOfClientsPerDocument == 1

VARIABLES
    connectionsMap,         \* per socket: clientId -> orderer connection
    roomMap,                \* per socket: clientId -> room
    scopeMap,               \* per socket: clientId -> scopes
    expirationTimer,        \* per socket: the token-expiry timer
    socketState,            \* per socket: "open" or "closed"
    socketRooms,            \* per socket: the transport rooms it has joined
    tasks,                  \* per request: the connectDocument invocation
    connectOut,             \* per request: what its handler has emitted
    clientRegistry,         \* the client manager's registered clients
    ordererConn,            \* per request: the orderer connection obtained
    disconnectTask,         \* per socket: the disconnect handler's progress
    disconnectOut,          \* per socket: the calls the handler has made
    lastEvent,              \* the handler turn or settlement just run
    isTokenExpiryEnabled,   \* configuration
    negotiated,             \* the negotiator's last input and result
    timeouts,               \* per socket: the timeouts scheduled and live
    getClientsTask,         \* per socket: the get_clients fetches in flight
    unhandledRejections,    \* the promises rejected with no handler
    usedRoutes,             \* summarizer node: the routes GC last reported
    unreferencedTimestampMs, \* summarizer node: when it became unreferenced
    inactive,               \* summarizer node: unreferenced for too long
    unreferencedTimer,      \* summarizer node: the timer that marks it so
    gcDetailsInInitialSummaryP, \* summarizer node: the initial details' load
    referenceUsedRoutes,    \* summarizer node: used routes of the last summary
    gcData,                 \* summarizer node: the GC data it holds
    getGCDataTask,          \* summarizer node: the getGCData call in flight
    now,                    \* the wall clock the timer runs on
    nodeEvent               \* summarizer node: the call or callback just run

socketVars == <<connectionsMap, roomMap, scopeMap, expirationTimer,
                socketState, socketRooms>>
disconnectVars == <<disconnectTask, disconnectOut>>
queryVars == <<getClientsTask, unhandledRejections>>
gatewayVars == <<connectionsMap, roomMap, scopeMap, expirationTimer,
                 socketState, socketRooms, tasks, connectOut, clientRegistry,
                 ordererConn, disconnectTask, disconnectOut, lastEvent,
                 isTokenExpiryEnabled, negotiated, timeouts, getClientsTask,
                 unhandledRejections>>
nodeVars == <<usedRoutes, unreferencedTimestampMs, inactive, unreferencedTimer,
              gcDetailsInInitialSummaryP, referenceUsedRoutes, gcData,
              getGCDataTask, now, nodeEvent>>
vars == <<connectionsMap, roomMap, scopeMap, expirationTimer, socketState,
          socketRooms, tasks, connectOut, clientRegistry, ordererConn,
          disconnectTask, disconnectOut, lastEvent, isTokenExpiryEnabled,
          negotiated, timeouts, getClientsTask, unhandledRejections,
          usedRoutes, unreferencedTimestampMs, inactive, unreferencedTimer,
          gcDetailsInInitialSummaryP, referenceUsedRoutes, gcData,
          getGCDataTask, now, nodeEvent>>

\* the timer variable holds no handle, or the handle of the timeout a
\* connect scheduled (handles are named after the scheduling request)
NoHandle == 0
NoTimer == [state |-> "undefined", msec |-> 0, handle |-> NoHandle]

Task(pc, socket, message, clientId, version, messageClient) ==
    [pc |-> pc, socket |-> socket, message |-> message,
     clientId |-> clientId, version |-> version,
     messageClient |-> messageClient]

IdleTask == Task("idle", "", NoMessage, NoClientId, NoVersion, NoMessageClient)

\* a finished invocation keeps its socket and the clientId it minted
DoneTask(t) ==
    Task("done", t.socket, NoMessage, t.clientId, NoVersion, NoMessageClient)

NoConnection == [opened |-> FALSE, errorListener |-> FALSE, connects |-> 0,
                 disconnects |-> 0, connectP |-> "none"]

RegistryEntry(tenantId, documentId, clientId) ==
    [tenantId |-> tenantId, documentId |-> documentId, clientId |-> clientId]

\* a client another gateway process has registered for document t/d
ForeignClient == RegistryEntry("t", "d", "foreign")

NoEvent == [event |-> "none", socket |-> "", clientId |-> NoClientId,
            batches |-> <<>>, throttle |-> "absent", throttleId |-> "",
            nacks |-> <<>>,
            ordered |-> <<>>, metrics |-> <<>>, signals |-> <<>>]

NotNegotiated == [called |-> FALSE, versions |-> NoVersions,
                  result |-> Negotiate(NoVersions)]

\* ---- SummarizerNodeWithGC: the values of its fields ----

\* the value of a field of type number | undefined that holds no number
Undefined == -1

\* the unreferenced timer: whether a timeout is pending, the duration it was
\* started with and the wall-clock time at which it is due
Timer(hasTimer, msec, due) == [hasTimer |-> hasTimer, msec |-> msec, due |-> due]

NoNodeEvent == [call |-> "none", gcTimestamp |-> Undefined, threw |-> "",
                errorEvents |-> <<>>]

\* the node as its constructor leaves it: referenced through its self route,
\* not inactive, the timer created but not started, the initial GC details
\* behind a lazy promise nobody has awaited yet
InitNode ==
    /\ usedRoutes = <<"">>
    /\ unreferencedTimestampMs = Undefined
    /\ inactive = FALSE
    /\ unreferencedTimer = Timer(FALSE, 0, 0)
    /\ gcDetailsInInitialSummaryP = "lazy"
    /\ referenceUsedRoutes = [defined |-> FALSE, routes |-> <<>>]
    /\ gcData = "undefined"
    /\ getGCDataTask = "idle"
    /\ now = 0
    /\ nodeEvent = NoNodeEvent

InitSockets ==
    /\ connectionsMap = [s \in Sockets |-> <<>>]
    /\ roomMap = [s \in Sockets |-> <<>>]
    /\ scopeMap = [s \in Sockets |-> <<>>]
    /\ expirationTimer = [s \in Sockets |-> NoTimer]
    /\ socketState = [s \in Sockets |-> "open"]
    /\ socketRooms = [s \in Sockets |-> {}]
    /\ tasks = [r \in Requests |-> IdleTask]
    /\ connectOut = [r \in Requests |-> <<>>]
    /\ ordererConn = [r \in Requests |-> NoConnection]
    /\ disconnectTask = [s \in Sockets |-> [pc |-> "idle", pending |-> {}]]
    /\ disconnectOut = [s \in Sockets |-> <<>>]
    /\ lastEvent = NoEvent
    /\ timeouts = [s \in Sockets |-> {}]
    /\ getClientsTask = [s \in Sockets |-> {}]
    /\ unhandledRejections = {}

\* the process starts with token expiry off (the default) or on
InitWith(expiry) ==
    /\ InitSockets
    /\ clientRegistry = {ForeignClient}
    /\ isTokenExpiryEnabled = expiry
    /\ negotiated = NotNegotiated
    /\ InitNode

Init == InitWith(FALSE)

InitExpiry == InitWith(TRUE)

(***************************************************************************)
(* Emissions (lines 412-433 and the ../utils message builders).            *)
(***************************************************************************)
Emit(event, body) == [to |-> "socket", event |-> event, body |-> body]
EmitToRoom(roomId, event, body) ==
    [to |-> roomId, event |-> event, body |-> body]

createRoomJoinMessage(clientId, details) ==
    [type |-> "join", clientId |-> clientId, client |-> details]
createRoomLeaveMessage(clientId) ==
    [type |-> "leave", clientId |-> clientId, client |-> NoMessageClient]
createNackMessage(code, type, message, retryAfter) ==
    [code |-> code, type |-> type, message |-> message,
     retryAfter |-> retryAfter]

RoomOf(claims) ==
    [tenantId |-> claims.tenantId, documentId |-> claims.documentId]

\* lines 79-81: the rate limiter's keys
getSocketConnectThrottleId(tenantId) == tenantId \o "_OpenSocketConn"

getSubmitOpThrottleId(clientId, tenantId) ==
    clientId \o "_" \o tenantId \o "_SubmitOp"

\* the limiter key a submitOp of clientId is counted under
SubmitOpThrottleId(s, clientId) ==
    getSubmitOpThrottleId(clientId,
                          MapGet(connectionsMap[s], clientId).tenantId)

\* what one run of a handler was given and has emitted and handed on
Event(name, s, clientId, batches, throttle, throttleId, nacks, ordered, metrics, signals) ==
    [event |-> name, socket |-> s, clientId |-> clientId,
     batches |-> batches, throttle |-> throttle, throttleId |-> throttleId,
     nacks |-> nacks,
     ordered |-> ordered, metrics |-> metrics, signals |-> signals]

\* a promise connectDocument awaited has settled and the function has run
\* on to its next suspension point or to its end
Settled(step, r, fulfilled) ==
    [event |-> "settled", step |-> step, request |-> r,
     outcome |-> IF fulfilled THEN "fulfilled" ELSE "rejected"]

(***************************************************************************)
(* connect_document (lines 200-395, 408-434). connectDocument suspends at  *)
(* verifyToken, the room joins, getClients, addClient, getOrderer and      *)
(* orderer.connect; each action below runs it from one suspension point to *)
(* the next, and the handler's then-callbacks run with its last step.      *)
(***************************************************************************)
\* the rejection callback: socket.emit("connect_document_error", error)
Reject(r, t, error) ==
    /\ tasks' = [tasks EXCEPT ![r] = DoneTask(t)]
    /\ connectOut' = [connectOut EXCEPT ![r] =
                        <<Emit("connect_document_error", error)>>]

\* a plausible slip: the room-join signal is announced before the response
AcceptJoinFirst(r, t, connected, rooms) ==
    /\ tasks' = [tasks EXCEPT ![r] = DoneTask(t)]
    /\ connectOut' = [connectOut EXCEPT ![r] =
            (IF MapHas(rooms, t.clientId)
             THEN <<EmitToRoom(getRoomId(MapGet(rooms, t.clientId)),
                       "signal",
                       createRoomJoinMessage(t.clientId, t.messageClient))>>
             ELSE <<>>)
            \o <<Emit("connect_document_success", connected)>>]

\* the fulfilment callback: connect_document_success to the socket, then
\* the room-join signal to the room roomMap holds for the clientId
Accept(r, t, connected, rooms) ==
    /\ tasks' = [tasks EXCEPT ![r] = DoneTask(t)]
    /\ connectOut' = [connectOut EXCEPT ![r] =
            <<Emit("connect_document_success", connected)>>
            \o (IF MapHas(rooms, t.clientId)
                THEN <<EmitToRoom(getRoomId(MapGet(rooms, t.clientId)),
                          "signal",
                          createRoomJoinMessage(t.clientId, t.messageClient))>>
                ELSE <<>>)]

\* lines 350-385: the IConnected response
ConnectedMessage(t, mode, maxMessageSize, serviceConfiguration) ==
    [claims |-> t.message.token.claims, clientId |-> t.clientId,
     existing |-> TRUE, maxMessageSize |-> maxMessageSize, mode |-> mode,
     serviceConfiguration |-> serviceConfiguration,
     supportedVersions |-> protocolVersions, version |-> t.version]

DefaultServiceConfiguration == "core.DefaultServiceConfiguration"
OrdererServiceConfiguration == "connection.serviceConfiguration"
OrdererMaxMessageSize == 16 * 1024

\* the event arrives: throttle, token presence, validateTokenClaims, and
\* the call of tenantManager.verifyToken (lines 201-224)
ConnectDocument(s, r, message, throttle) ==
    /\ socketState[s] = "open"
    /\ tasks[r].pc = "idle"
    /\ \A q \in 1..(r - 1) : tasks[q].pc # "idle"
    /\ LET t == Task("verifyToken", s, message, NoClientId, NoVersion,
                     NoMessageClient)
           throttleError == checkThrottle(throttle)
       IN IF throttleError # NoError THEN Reject(r, t, throttleError)
          ELSE IF ~message.token.present THEN Reject(r, t, MissingTokenError)
          ELSE IF ~TokenClaimsValid(message)
               THEN Reject(r, t, InvalidClaimsError)
          ELSE /\ tasks' = [tasks EXCEPT ![r] = t]
               /\ UNCHANGED connectOut
    /\ lastEvent' = Event("connect_document", s, NoClientId, <<message>>,
                          throttle,
                          getSocketConnectThrottleId(message.tenantId),
                          <<>>, <<>>, <<>>, <<>>)
    /\ UNCHANGED <<socketVars, clientRegistry, ordererConn, disconnectVars,
                   isTokenExpiryEnabled, nodeVars, negotiated, queryVars,
                   timeouts>>

\* verifyToken settles; on success the clientId is minted and the two
\* transport rooms are asked for (lines 223-244)
VerifyTokenDone(r, ok) ==
    /\ tasks[r].pc = "verifyToken"
    /\ LET t == tasks[r]
       IN IF ~ok THEN Reject(r, t, TenantRejectError)
          ELSE /\ tasks' = [tasks EXCEPT ![r] =
                              [t EXCEPT !.pc = "join",
                                        !.clientId = generateClientId(r)]]
               /\ UNCHANGED connectOut
    /\ lastEvent' = Settled("verifyToken", r, ok)
    /\ UNCHANGED <<socketVars, clientRegistry, ordererConn, disconnectVars,
                   isTokenExpiryEnabled, nodeVars, negotiated, queryVars,
                   timeouts>>

\* a plausible slip: the scopes are cached and the room is forgotten
CommitScopesOnly(s, clientId, scopes, room) ==
    /\ scopeMap' = [scopeMap EXCEPT ![s] = MapSet(@, clientId, scopes)]
    /\ UNCHANGED roomMap

\* a plausible slip: the room is recorded and the scopes are not cached
CommitRoomOnly(s, clientId, scopes, room) ==
    /\ roomMap' = [roomMap EXCEPT ![s] = MapSet(@, clientId, room)]
    /\ UNCHANGED scopeMap

\* a plausible slip: the maps are rebuilt around the new clientId, and the
\* entries of the socket's earlier clients are lost
CommitMapsReplacing(s, clientId, scopes, room) ==
    /\ scopeMap' = [scopeMap EXCEPT ![s] = MapSet(<<>>, clientId, scopes)]
    /\ roomMap' = [roomMap EXCEPT ![s] = MapSet(<<>>, clientId, room)]

\* lines 267-271: scopeMap.set(clientId, scopes); roomMap.set(clientId, room)
CommitMaps(s, clientId, scopes, room) ==
    /\ scopeMap' = [scopeMap EXCEPT ![s] = MapSet(@, clientId, scopes)]
    /\ roomMap' = [roomMap EXCEPT ![s] = MapSet(@, clientId, room)]

\* the joins settle (Promise.all of the two): on failure at most one of the
\* rooms was joined; on success the descriptor is composed, the scopes and
\* the room are cached, the version is negotiated and getClients is called
\* (lines 240-285)
JoinOutcomes == {"both", "room", "neither"}

JoinDone(r, outcome) ==
    /\ tasks[r].pc = "join"
    /\ LET t == tasks[r]
           s == t.socket
           claims == t.message.token.claims
           room == RoomOf(claims)
           both == {getRoomId(room), getClientRoomId(t.clientId)}
           joined == CASE outcome = "both" -> both
                       [] outcome = "room" -> {getRoomId(room)}
                       [] outcome = "client" -> {getClientRoomId(t.clientId)}
                       [] OTHER -> {}
           messageClient == ComposeClient(t.message, claims)
           negotiation == Negotiate(t.message.versions)
       IN /\ socketRooms' = [socketRooms EXCEPT ![s] = @ \cup joined]
          /\ IF joined # both
             THEN /\ Reject(r, t, ServerError)
                  /\ UNCHANGED <<scopeMap, roomMap>>
             ELSE /\ CommitMaps(s, t.clientId, messageClient.scopes, room)
                  /\ IF negotiation.rejected
                     THEN Reject(r, t, ProtocolError)
                     ELSE /\ tasks' = [tasks EXCEPT ![r] =
                                [t EXCEPT !.pc = "getClients",
                                          !.messageClient = messageClient,
                                          !.version = negotiation.version]]
                          /\ UNCHANGED connectOut
    /\ lastEvent' = Settled("join", r, outcome = "both")
    /\ UNCHANGED <<connectionsMap, expirationTimer, socketState,
                   clientRegistry, ordererConn, disconnectVars,
                   isTokenExpiryEnabled, nodeVars, negotiated, queryVars,
                   timeouts>>

\* the registry's clients of a document
ClientsOf(tenantId, documentId) ==
    {c \in clientRegistry :
        c.tenantId = tenantId /\ c.documentId = documentId}

\* getClients settles: the quota check and the call of addClient
\* (lines 285-301, 397-404)
GetClientsDone(r, ok) ==
    /\ tasks[r].pc = "getClients"
    /\ LET t == tasks[r]
           claims == t.message.token.claims
           clients == ClientsOf(claims.tenantId, claims.documentId)
       IN IF ~ok THEN Reject(r, t, ServerError)
          ELSE IF Cardinality(clients) > maxNumberOfClientsPerDocument
               THEN Reject(r, t, TooManyClientsError)
          ELSE /\ tasks' = [tasks EXCEPT ![r] = [t EXCEPT !.pc = "addClient"]]
               /\ UNCHANGED connectOut
    /\ lastEvent' = Settled("getClients", r, ok)
    /\ UNCHANGED <<socketVars, clientRegistry, ordererConn, disconnectVars,
                   isTokenExpiryEnabled, nodeVars, negotiated, queryVars,
                   timeouts>>

\* setTimeout (lines 194-197): the timer variable holds the handle of the
\* timeout just scheduled
ArmedTimer(handle, mSecUntilExpiration) ==
    [state |-> "pending", msec |-> mSecUntilExpiration, handle |-> handle]

\* a plausible slip: the variable is reset and clearTimeout is not called
clearExpirationTimerKeepsTimeout(timer, live) ==
    [timer |-> NoTimer, live |-> live]

\* lines 186-191: clearExpirationTimer, on the timer variable of a socket
\* and the socket's live timeouts
clearExpirationTimer(timer, live) ==
    IF timer # NoTimer
    THEN [timer |-> NoTimer, live |-> live \ {timer.handle}]
    ELSE [timer |-> timer, live |-> live]

\* lines 193-198: setExpirationTimer clears and then schedules
setExpirationTimer(timer, live, handle, mSecUntilExpiration) ==
    LET cleared == clearExpirationTimer(timer, live)
    IN [timer |-> ArmedTimer(handle, mSecUntilExpiration),
        live |-> cleared.live \cup {handle}]

\* a plausible slip: the connection is stored and connect() is never called
OpenedConnectionNotConnected ==
    [opened |-> TRUE, errorListener |-> TRUE, connects |-> 0,
     disconnects |-> 0, connectP |-> "none"]

\* lines 320-348: the orderer connection is obtained, its error listener
\* installed, connect() initiated and the connection stored
OpenedConnection == [opened |-> TRUE, errorListener |-> TRUE, connects |-> 1,
                     disconnects |-> 0, connectP |-> "pending"]

Connection(t) ==
    [tenantId |-> t.message.token.claims.tenantId,
     documentId |-> t.message.token.claims.documentId,
     clientId |-> t.clientId]

\* addClient settles: the expiration timer is armed, and a writer asks for
\* its orderer while a reader is answered at once (lines 296-314, 367-394)
AddClientDone(r, ok) ==
    /\ tasks[r].pc = "addClient"
    /\ LET t == tasks[r]
           s == t.socket
           claims == t.message.token.claims
       IN IF ~ok
          THEN /\ Reject(r, t, ServerError)
               /\ UNCHANGED <<clientRegistry, expirationTimer, timeouts>>
          ELSE /\ clientRegistry' = clientRegistry \cup
                    {RegistryEntry(claims.tenantId, claims.documentId,
                                   t.clientId)}
               /\ IF isTokenExpiryEnabled /\ TokenExpired(claims)
                  THEN /\ Reject(r, t, ExpiredTokenError)
                       /\ UNCHANGED <<expirationTimer, timeouts>>
                  ELSE /\ LET armed == setExpirationTimer(expirationTimer[s],
                                           timeouts[s], r, LifeTimeMSec(claims))
                          IN IF isTokenExpiryEnabled
                             THEN /\ expirationTimer' =
                                       [expirationTimer EXCEPT ![s] =
                                           armed.timer]
                                  /\ timeouts' =
                                       [timeouts EXCEPT ![s] = armed.live]
                             ELSE UNCHANGED <<expirationTimer, timeouts>>
                       /\ IF isWriter(t.messageClient.scopes, t.message.mode)
                          THEN /\ tasks' = [tasks EXCEPT ![r] =
                                              [t EXCEPT !.pc = "getOrderer"]]
                               /\ UNCHANGED connectOut
                          ELSE Accept(r, t,
                                   ConnectedMessage(t, "read", 1024,
                                       DefaultServiceConfiguration),
                                   roomMap[s])
    /\ lastEvent' = Settled("addClient", r, ok)
    /\ UNCHANGED <<connectionsMap, roomMap, scopeMap, socketState,
                   socketRooms, ordererConn, disconnectVars,
                   isTokenExpiryEnabled, nodeVars, negotiated, queryVars>>

\* getOrderer settles (lines 314-320)
GetOrdererDone(r, ok) ==
    /\ tasks[r].pc = "getOrderer"
    /\ LET t == tasks[r]
       IN IF ~ok THEN Reject(r, t, ServerError)
          ELSE /\ tasks' = [tasks EXCEPT ![r] =
                              [t EXCEPT !.pc = "ordererConnect"]]
               /\ UNCHANGED connectOut
    /\ lastEvent' = Settled("getOrderer", r, ok)
    /\ UNCHANGED <<socketVars, clientRegistry, ordererConn, disconnectVars,
                   isTokenExpiryEnabled, nodeVars, negotiated, queryVars,
                   timeouts>>

\* orderer.connect settles: the writer's connection is stored and the
\* client is answered (lines 320-366, 387-394)
OrdererConnectDone(r, ok) ==
    /\ tasks[r].pc = "ordererConnect"
    /\ LET t == tasks[r]
           s == t.socket
       IN IF ~ok
          THEN /\ Reject(r, t, ServerError)
               /\ UNCHANGED <<connectionsMap, ordererConn>>
          ELSE /\ ordererConn' = [ordererConn EXCEPT ![r] = OpenedConnection]
               /\ connectionsMap' = [connectionsMap EXCEPT ![s] =
                                       MapSet(@, t.clientId, Connection(t))]
               /\ Accept(r, t,
                      ConnectedMessage(t, "write", OrdererMaxMessageSize,
                          OrdererServiceConfiguration),
                      roomMap[s])
    /\ lastEvent' = Settled("ordererConnect", r, ok)
    /\ UNCHANGED <<roomMap, scopeMap, expirationTimer, socketState,
                   socketRooms, clientRegistry, disconnectVars,
                   isTokenExpiryEnabled, nodeVars, negotiated, queryVars,
                   timeouts>>

(***************************************************************************)
(* disconnect (lines 525-551), the expiration timer (lines 186-198) and    *)
(* the orderer connection's error listener (lines 326-339).                *)
(***************************************************************************)
\* the request whose connect minted clientId
RequestOf(clientId) == CHOOSE r \in Requests : generateClientId(r) = clientId

Call(name, clientId, room) ==
    [call |-> name, clientId |-> clientId, room |-> room]

\* lines 528-537: connection.disconnect() for every entry of connectionsMap
DisconnectCalls(s) ==
    [i \in 1..Len(connectionsMap[s]) |->
        Call("connection.disconnect", connectionsMap[s][i].key, NoRoom)]

\* a plausible slip: the room-leave signal is sent and removeClient is not
\* called
LeaveCallsWithoutRemove(s) ==
    [i \in 1..Len(roomMap[s]) |->
        Call("emitToRoom leave", roomMap[s][i].key, roomMap[s][i].value)]

\* lines 539-549: for every entry of roomMap, in insertion order,
\* removeClient is called and then the room-leave signal is sent
LeaveCalls(s) ==
    [i \in 1..(2 * Len(roomMap[s])) |->
        LET e == roomMap[s][(i + 1) \div 2]
        IN IF i % 2 = 1
           THEN Call("removeClient", e.key, e.value)
           ELSE Call("emitToRoom leave", e.key, e.value)]

\* the removeClient promises the handler awaits
RemovalsOf(calls) ==
    {calls[i].clientId : i \in {j \in 1..Len(calls) :
                                    calls[j].call = "removeClient"}}

\* the handler up to its await of Promise.all(removeP); the transport has
\* taken the socket out of its rooms. conns is ordererConn, and live the
\* socket's live timeouts, as the caller leaves them.
DisconnectHandler(s, conns, live) ==
    /\ socketState' = [socketState EXCEPT ![s] = "closed"]
    /\ socketRooms' = [socketRooms EXCEPT ![s] = {}]
    /\ LET cleared == clearExpirationTimer(expirationTimer[s], live)
       IN /\ expirationTimer' = [expirationTimer EXCEPT ![s] = cleared.timer]
          /\ timeouts' = [timeouts EXCEPT ![s] = cleared.live]
    /\ ordererConn' =
          [r \in Requests |->
              IF MapHas(connectionsMap[s], generateClientId(r))
              THEN [conns[r] EXCEPT !.disconnects = @ + 1]
              ELSE conns[r]]
    /\ LET calls == LeaveCalls(s)
       IN /\ disconnectOut' = [disconnectOut EXCEPT ![s] =
                                 DisconnectCalls(s) \o calls]
          /\ disconnectTask' = [disconnectTask EXCEPT ![s] =
                IF RemovalsOf(calls) = {}
                THEN [pc |-> "returned", pending |-> {}]
                ELSE [pc |-> "awaiting", pending |-> RemovalsOf(calls)]]

\* the transport closes the socket
Disconnect(s) ==
    /\ socketState[s] = "open"
    /\ DisconnectHandler(s, ordererConn, timeouts[s])
    /\ lastEvent' = NoEvent
    /\ UNCHANGED <<connectionsMap, roomMap, scopeMap, tasks, connectOut,
                   clientRegistry, isTokenExpiryEnabled, nodeVars, negotiated,
                   queryVars>>

\* a live timeout fires: socket.disconnect(true), which runs the disconnect
\* handler of a socket that is still connected (lines 194-197)
TimerFire(s, handle) ==
    /\ handle \in timeouts[s]
    /\ LET live == timeouts[s] \ {handle}
       IN IF socketState[s] = "open"
          THEN DisconnectHandler(s, ordererConn, live)
          ELSE /\ expirationTimer' =
                    IF expirationTimer[s].handle = handle
                    THEN [expirationTimer EXCEPT ![s].state = "fired"]
                    ELSE expirationTimer
               /\ timeouts' = [timeouts EXCEPT ![s] = live]
               /\ UNCHANGED <<socketState, socketRooms, ordererConn,
                              disconnectVars>>
    /\ lastEvent' = NoEvent
    /\ UNCHANGED <<connectionsMap, roomMap, scopeMap, tasks, connectOut,
                   clientRegistry, isTokenExpiryEnabled, nodeVars, negotiated,
                   queryVars>>

\* a plausible slip: the listener clears the timer and leaves the socket
\* connected
OrdererErrorWithoutDisconnect(r) ==
    /\ ordererConn[r].errorListener
    /\ LET s == tasks[r].socket
           cleared == clearExpirationTimer(expirationTimer[s], timeouts[s])
       IN /\ ordererConn' = [ordererConn EXCEPT ![r].errorListener = FALSE]
          /\ expirationTimer' = [expirationTimer EXCEPT ![s] = cleared.timer]
          /\ timeouts' = [timeouts EXCEPT ![s] = cleared.live]
          /\ UNCHANGED <<socketState, socketRooms, disconnectVars>>
    /\ lastEvent' = NoEvent
    /\ UNCHANGED <<connectionsMap, roomMap, scopeMap, tasks, connectOut,
                   clientRegistry, isTokenExpiryEnabled, nodeVars, negotiated,
                   queryVars>>

\* an orderer connection raises "error": the once-listener clears the
\* timer and disconnects the socket (lines 327-339); the disconnect handler
\* runs if the socket was still connected
OrdererError(r) ==
    /\ ordererConn[r].errorListener
    /\ LET s == tasks[r].socket
           conns == [ordererConn EXCEPT ![r].errorListener = FALSE]
           cleared == clearExpirationTimer(expirationTimer[s], timeouts[s])
       IN IF socketState[s] = "open"
          THEN DisconnectHandler(s, conns, timeouts[s])
          ELSE /\ ordererConn' = conns
               /\ expirationTimer' = [expirationTimer EXCEPT ![s] =
                                         cleared.timer]
               /\ timeouts' = [timeouts EXCEPT ![s] = cleared.live]
               /\ UNCHANGED <<socketState, socketRooms, disconnectVars>>
    /\ lastEvent' = NoEvent
    /\ UNCHANGED <<connectionsMap, roomMap, scopeMap, tasks, connectOut,
                   clientRegistry, isTokenExpiryEnabled, nodeVars, negotiated,
                   queryVars>>

\* one removeClient settles; Promise.all fulfils when the last one has
\* fulfilled and rejects as soon as one rejects
RemoveClientDone(s, clientId, ok) ==
    /\ clientId \in disconnectTask[s].pending
    /\ LET d == disconnectTask[s]
           room == MapGet(roomMap[s], clientId)
           left == d.pending \ {clientId}
       IN /\ clientRegistry' =
                IF ok
                THEN clientRegistry \
                       {RegistryEntry(room.tenantId, room.documentId, clientId)}
                ELSE clientRegistry
          /\ disconnectTask' = [disconnectTask EXCEPT ![s] =
                [pc |-> IF d.pc # "awaiting" THEN d.pc
                        ELSE IF ~ok THEN "rejected"
                        ELSE IF left = {} THEN "returned"
                        ELSE "awaiting",
                 pending |-> left]]
    /\ lastEvent' = NoEvent
    /\ UNCHANGED <<socketVars, tasks, connectOut, ordererConn, disconnectOut,
                   isTokenExpiryEnabled, nodeVars, negotiated, queryVars,
                   timeouts>>

(***************************************************************************)
(* submitOp and submitSignal (lines 84-104, 437-522).                      *)
(***************************************************************************)
RoundTrip == "tripComplete"

\* the fields sanitizeMessage copies
SanitizedFields == {"clientSequenceNumber", "contents", "metadata",
                    "referenceSequenceNumber", "traces", "type"}

\* a plausible slip: the received message is handed on as it is
sanitizeMessageUnfiltered(message) == message

\* the projection of sanitizeMessage (the sampled trace is pushed on
\* message.operation.traces, which the projection does not copy)
sanitizeMessage(message) ==
    [f \in (DOMAIN message) \cap SanitizedFields |-> message[f]]

\* a batch element is one message or an array of messages
One(message) == [isArray |-> FALSE, items |-> <<message>>]
Many(messages) == [isArray |-> TRUE, items |-> messages]

\* Array.isArray(batch) ? batch : [batch]
MessagesOf(batch) == batch.items

OpA == [clientSequenceNumber |-> 1, referenceSequenceNumber |-> 0,
        type |-> "op", contents |-> "a", unlisted |-> "x"]
OpB == [clientSequenceNumber |-> 2, referenceSequenceNumber |-> 0,
        type |-> "op", contents |-> "b", traces |-> <<>>]
TripWithTraces == [clientSequenceNumber |-> 3, type |-> RoundTrip,
                   traces |-> <<"trace">>]
TripWithoutTraces == [clientSequenceNumber |-> 4, type |-> RoundTrip]

\* the batches the model's clients submit
EventBatches ==
    { <<>>,
      <<One(OpA)>>,
      <<Many(<<TripWithTraces>>), Many(<<OpB, TripWithoutTraces, OpA>>),
        One(OpA)>> }

\* lines 472-489: the messages of one batch element that are ordered
Sanitized(batch) ==
    LET kept == SelectSeq(MessagesOf(batch), LAMBDA m : m.type # RoundTrip)
    IN [i \in 1..Len(kept) |-> sanitizeMessage(kept[i])]

\* lines 474-484: the traces of one batch element written as latency metrics
LatencyMetrics(batch) ==
    LET trips == SelectSeq(MessagesOf(batch),
                     LAMBDA m : m.type = RoundTrip /\ "traces" \in DOMAIN m)
    IN [i \in 1..Len(trips) |-> trips[i].traces]

RECURSIVE Concat(_)
Concat(seqs) == IF seqs = <<>> THEN <<>> ELSE Head(seqs) \o Concat(Tail(seqs))

\* a plausible slip: connection.order is called for every batch element,
\* one left empty by the RoundTrip filter included
OrderCallsKeepEmpty(batches) ==
    [i \in 1..Len(batches) |-> Sanitized(batches[i])]

\* lines 470-495: the lists handed to connection.order, in batch order
OrderCalls(batches) ==
    SelectSeq([i \in 1..Len(batches) |-> Sanitized(batches[i])],
              LAMBDA list : Len(list) > 0)

MetricCalls(batches) ==
    Concat([i \in 1..Len(batches) |-> LatencyMetrics(batches[i])])

\* a plausible slip: membership of roomMap is tested before the scopes
SubmitOpNackRoomFirst(s, clientId) ==
    IF MapHas(roomMap[s], clientId)
    THEN createNackMessage(403, "InvalidScopeError", "Invalid scope", 0)
    ELSE IF MapHas(scopeMap[s], clientId)
              /\ hasWriteAccess(MapGet(scopeMap[s], clientId))
    THEN createNackMessage(400, "BadRequestError", "Readonly client", 0)
    ELSE createNackMessage(400, "BadRequestError", "Nonexistent client", 0)

\* lines 443-451: the nack for a client without an orderer connection
SubmitOpNack(s, clientId) ==
    IF MapHas(scopeMap[s], clientId)
       /\ hasWriteAccess(MapGet(scopeMap[s], clientId))
    THEN createNackMessage(400, "BadRequestError", "Readonly client", 0)
    ELSE IF MapHas(roomMap[s], clientId)
    THEN createNackMessage(403, "InvalidScopeError", "Invalid scope", 0)
    ELSE createNackMessage(400, "BadRequestError", "Nonexistent client", 0)

\* a plausible slip: a client without an orderer connection is nacked and
\* its batches are ordered all the same
SubmitOpResultForwardAlways(s, clientId, batches, throttle) ==
    IF ~MapHas(connectionsMap[s], clientId)
    THEN Event("submitOp", s, clientId, batches, "unused", "",
               <<SubmitOpNack(s, clientId)>>, OrderCalls(batches), <<>>, <<>>)
    ELSE IF checkThrottle(throttle) # NoError
    THEN Event("submitOp", s, clientId, batches, throttle,
               SubmitOpThrottleId(s, clientId),
               <<createNackMessage(checkThrottle(throttle).code,
                     "ThrottlingError", checkThrottle(throttle).message,
                     checkThrottle(throttle).retryAfter)>>,
               <<>>, <<>>, <<>>)
    ELSE Event("submitOp", s, clientId, batches, throttle,
               SubmitOpThrottleId(s, clientId), <<>>,
               OrderCalls(batches), MetricCalls(batches), <<>>)

\* a plausible slip: a throttled submitOp is nacked and its batches are
\* handed on all the same (the early return is missing)
SubmitOpResultThrottledForwards(s, clientId, batches, throttle) ==
    IF ~MapHas(connectionsMap[s], clientId)
    THEN Event("submitOp", s, clientId, batches, "unused", "",
               <<SubmitOpNack(s, clientId)>>, <<>>, <<>>, <<>>)
    ELSE Event("submitOp", s, clientId, batches, throttle,
               SubmitOpThrottleId(s, clientId),
               IF checkThrottle(throttle) # NoError
               THEN <<createNackMessage(checkThrottle(throttle).code,
                         "ThrottlingError", checkThrottle(throttle).message,
                         checkThrottle(throttle).retryAfter)>>
               ELSE <<>>,
               OrderCalls(batches), MetricCalls(batches), <<>>)

\* lines 439-497: what one submitOp emits and hands on; the rate limiter is
\* consulted only for a client that has an orderer connection
SubmitOpResult(s, clientId, batches, throttle) ==
    IF ~MapHas(connectionsMap[s], clientId)
    THEN Event("submitOp", s, clientId, batches, "unused", "",
               <<SubmitOpNack(s, clientId)>>, <<>>, <<>>, <<>>)
    ELSE IF checkThrottle(throttle) # NoError
    THEN Event("submitOp", s, clientId, batches, throttle,
               SubmitOpThrottleId(s, clientId),
               <<createNackMessage(checkThrottle(throttle).code,
                     "ThrottlingError", checkThrottle(throttle).message,
                     checkThrottle(throttle).retryAfter)>>,
               <<>>, <<>>, <<>>)
    ELSE Event("submitOp", s, clientId, batches, throttle,
               SubmitOpThrottleId(s, clientId), <<>>,
               OrderCalls(batches), MetricCalls(batches), <<>>)

SubmitOp(s, clientId, batches, throttle) ==
    /\ socketState[s] = "open"
    /\ lastEvent' = SubmitOpResult(s, clientId, batches, throttle)
    /\ UNCHANGED <<socketVars, tasks, connectOut, clientRegistry, ordererConn,
                   disconnectVars, isTokenExpiryEnabled, nodeVars, negotiated, queryVars,
                   timeouts>>

\* lines 509-520: one broadcast per content, in order
SignalCalls(roomId, clientId, batches) ==
    LET contents == Concat([i \in 1..Len(batches) |-> MessagesOf(batches[i])])
    IN [i \in 1..Len(contents) |->
          EmitToRoom(roomId, "signal",
                     [clientId |-> clientId, content |-> contents[i]])]

\* a plausible slip: the gate tests scopeMap for write access, not roomMap
SubmitSignalResultWritersOnly(s, clientId, batches) ==
    IF ~(MapHas(scopeMap[s], clientId)
         /\ hasWriteAccess(MapGet(scopeMap[s], clientId)))
    THEN Event("submitSignal", s, clientId, batches, "unused", "",
               <<createNackMessage(400, "BadRequestError",
                     "Nonexistent client", 0)>>, <<>>, <<>>, <<>>)
    ELSE Event("submitSignal", s, clientId, batches, "unused", "", <<>>, <<>>,
               <<>>,
               SignalCalls(getRoomId(MapGet(roomMap[s], clientId)), clientId,
                           batches))

\* lines 502-522
SubmitSignalResult(s, clientId, batches) ==
    IF ~MapHas(roomMap[s], clientId)
    THEN Event("submitSignal", s, clientId, batches, "unused", "",
               <<createNackMessage(400, "BadRequestError",
                     "Nonexistent client", 0)>>, <<>>, <<>>, <<>>)
    ELSE Event("submitSignal", s, clientId, batches, "unused", "", <<>>, <<>>,
               <<>>,
               SignalCalls(getRoomId(MapGet(roomMap[s], clientId)), clientId,
                           batches))

SubmitSignal(s, clientId, batches) ==
    /\ socketState[s] = "open"
    /\ lastEvent' = SubmitSignalResult(s, clientId, batches)
    /\ UNCHANGED <<socketVars, tasks, connectOut, clientRegistry, ordererConn,
                   disconnectVars, isTokenExpiryEnabled, nodeVars, negotiated, queryVars,
                   timeouts>>

(***************************************************************************)
(* ping and get_clients (lines 553-579), and the promises no handler       *)
(* awaits: the fetch of get_clients (lines 560-566), connection.connect()  *)
(* (lines 341-346) and connection.order(...) (line 493).                   *)
(***************************************************************************)
NonexistentClientNack ==
    createNackMessage(400, "BadRequestError", "Nonexistent client", 0)

\* a turn of a handler that takes a clientId and no batches
QueryEvent(name, s, clientId, nacks, signals) ==
    Event(name, s, clientId, <<>>, "unused", "", nacks, <<>>, <<>>, signals)

\* a plausible slip: the clientId is looked up in the maps of every socket
PingResultAnySocket(s, clientId) ==
    IF \A other \in Sockets : ~MapHas(roomMap[other], clientId)
    THEN QueryEvent("ping", s, clientId, <<NonexistentClientNack>>, <<>>)
    ELSE LET owner == CHOOSE other \in Sockets :
                          MapHas(roomMap[other], clientId)
         IN QueryEvent("ping", s, clientId, <<>>,
                <<EmitToRoom(getRoomId(MapGet(roomMap[owner], clientId)),
                             "pong", clientId)>>)

\* lines 570-579
PingResult(s, clientId) ==
    IF ~MapHas(roomMap[s], clientId)
    THEN QueryEvent("ping", s, clientId, <<NonexistentClientNack>>, <<>>)
    ELSE QueryEvent("ping", s, clientId, <<>>,
             <<EmitToRoom(getRoomId(MapGet(roomMap[s], clientId)), "pong",
                          clientId)>>)

Ping(s, clientId) ==
    /\ socketState[s] = "open"
    /\ lastEvent' = PingResult(s, clientId)
    /\ UNCHANGED <<socketVars, tasks, connectOut, clientRegistry, ordererConn,
                   disconnectVars, isTokenExpiryEnabled, nodeVars, negotiated, queryVars,
                   timeouts>>

\* a fetch of the client list that get_clients has started for the room
Query(clientId, room) == [clientId |-> clientId, room |-> room]

\* lines 553-568: the handler nacks, or starts the fetch and returns
\* (a clientId has at most one fetch in flight)
GetClients(s, clientId) ==
    /\ socketState[s] = "open"
    /\ IF ~MapHas(roomMap[s], clientId)
       THEN /\ lastEvent' = QueryEvent("get_clients", s, clientId,
                                       <<NonexistentClientNack>>, <<>>)
            /\ UNCHANGED getClientsTask
       ELSE LET query == Query(clientId, MapGet(roomMap[s], clientId))
            IN /\ query \notin getClientsTask[s]
               /\ getClientsTask' = [getClientsTask EXCEPT ![s] =
                                        @ \cup {query}]
               /\ lastEvent' = QueryEvent("get_clients", s, clientId, <<>>,
                                          <<>>)
    /\ UNCHANGED <<socketVars, tasks, connectOut, clientRegistry, ordererConn,
                   disconnectVars, isTokenExpiryEnabled, nodeVars, negotiated,
                   unhandledRejections, timeouts>>

\* the fetch settles (lines 397-404, 560-566): the then-callback broadcasts
\* the list; a rejection (handleServerError's) has no handler
ConnectedClients(s, query, ok) ==
    /\ query \in getClientsTask[s]
    /\ getClientsTask' = [getClientsTask EXCEPT ![s] = @ \ {query}]
    /\ IF ok
       THEN /\ lastEvent' =
                 QueryEvent("connected_clients", s, query.clientId, <<>>,
                     <<EmitToRoom(getRoomId(query.room), "connected_clients",
                           ClientsOf(query.room.tenantId,
                                     query.room.documentId))>>)
            /\ UNCHANGED unhandledRejections
       ELSE /\ lastEvent' = QueryEvent("connected_clients", s,
                                       query.clientId, <<>>, <<>>)
            /\ unhandledRejections' = unhandledRejections \cup {"getClients"}
    /\ UNCHANGED <<socketVars, tasks, connectOut, clientRegistry, ordererConn,
                   disconnectVars, isTokenExpiryEnabled, nodeVars, negotiated, timeouts>>

\* connection.connect() settles (lines 341-346): the catch callback logs
\* and returns handleServerError's rejected promise, which has no handler
ConnectionConnectDone(r, ok) ==
    /\ ordererConn[r].connectP = "pending"
    /\ ordererConn' = [ordererConn EXCEPT ![r].connectP =
                          IF ok THEN "fulfilled" ELSE "rejected"]
    /\ unhandledRejections' =
          IF ok THEN unhandledRejections
          ELSE unhandledRejections \cup {"connection.connect"}
    /\ lastEvent' = Settled("connection.connect", r, ok)
    /\ UNCHANGED <<socketVars, tasks, connectOut, clientRegistry,
                   disconnectVars, isTokenExpiryEnabled, nodeVars, negotiated,
                   getClientsTask, timeouts>>

\* the promises of the connection.order calls of the submitOp just run
\* settle (line 493: the calls are not awaited and have no handler)
OrderDone(ok) ==
    /\ lastEvent.event = "submitOp"
    /\ Len(lastEvent.ordered) > 0
    /\ unhandledRejections' =
          IF ok THEN unhandledRejections
          ELSE unhandledRejections \cup {"connection.order"}
    /\ lastEvent' = Settled("connection.order", RequestOf(lastEvent.clientId),
                            ok)
    /\ UNCHANGED <<socketVars, tasks, connectOut, clientRegistry, ordererConn,
                   disconnectVars, isTokenExpiryEnabled, nodeVars, negotiated,
                   getClientsTask, timeouts>>

(***************************************************************************)
(* The gateway: every handler and every settling promise is a step.        *)
(***************************************************************************)
ClientIds == {generateClientId(r) : r \in Requests}

\* the rooms of the documents the model's clients name
Rooms == {RoomOf(message.token.claims) :
            message \in {m \in Messages : m.token.present}}

\* the connect_document pipeline for the sockets S and the messages M
ConnectSteps(S, M) ==
    \/ \E s \in S, r \in Requests, message \in M,
          throttle \in ThrottleOutcomes :
            ConnectDocument(s, r, message, throttle)
    \/ \E r \in Requests, ok \in BOOLEAN : VerifyTokenDone(r, ok)
    \/ \E r \in Requests, outcome \in JoinOutcomes : JoinDone(r, outcome)
    \/ \E r \in Requests, ok \in BOOLEAN : GetClientsDone(r, ok)
    \/ \E r \in Requests, ok \in BOOLEAN : AddClientDone(r, ok)
    \/ \E r \in Requests, ok \in BOOLEAN : GetOrdererDone(r, ok)
    \/ \E r \in Requests, ok \in BOOLEAN : OrdererConnectDone(r, ok)

\* the ways a socket of S closes, and the removals its handler awaits
DisconnectSteps(S) ==
    \/ \E s \in S : Disconnect(s)
    \/ \E r \in Requests : OrdererError(r)
    \/ \E s \in S, clientId \in ClientIds, ok \in BOOLEAN :
            RemoveClientDone(s, clientId, ok)

\* the submissions of the clients of the sockets S
SubmitSteps(S) ==
    \/ \E s \in S, clientId \in ClientIds, batches \in EventBatches,
          throttle \in ThrottleOutcomes :
            SubmitOp(s, clientId, batches, throttle)
    \/ \E s \in S, clientId \in ClientIds, batches \in EventBatches :
            SubmitSignal(s, clientId, batches)

\* one socket's life with token expiry off (the default configuration)
Next ==
    \/ ConnectSteps({"s1"}, Messages)
    \/ DisconnectSteps({"s1"})

Spec == Init /\ [][Next]_vars

\* one socket's life with token expiry on
NextExpiry ==
    \/ ConnectSteps({"s1"}, Messages)
    \/ DisconnectSteps({"s1"})
    \/ \E handle \in Requests : TimerFire("s1", handle)

SpecExpiry == InitExpiry /\ [][NextExpiry]_vars

\* one socket's clients connecting and submitting
NextSubmit ==
    \/ ConnectSteps({"s1"}, Messages)
    \/ SubmitSteps({"s1"})

SpecSubmit == Init /\ [][NextSubmit]_vars

\* the presence queries of the clients of the sockets S
QuerySteps(S) ==
    \/ \E s \in S, clientId \in ClientIds : Ping(s, clientId)
    \/ \E s \in S, clientId \in ClientIds : GetClients(s, clientId)
    \/ \E s \in S, clientId \in ClientIds, room \in Rooms, ok \in BOOLEAN :
            ConnectedClients(s, Query(clientId, room), ok)

\* one socket's clients connecting and querying
NextQuery ==
    \/ ConnectSteps({"s1"}, Messages)
    \/ QuerySteps({"s1"})

SpecQuery == Init /\ [][NextQuery]_vars

\* the orderer hand-offs no handler awaits
HandOffSteps ==
    \/ \E r \in Requests, ok \in BOOLEAN : ConnectionConnectDone(r, ok)
    \/ \E ok \in BOOLEAN : OrderDone(ok)

\* one socket's writers connecting and submitting, and their hand-offs
\* settling
NextHandOff ==
    \/ ConnectSteps({"s1"}, Messages)
    \/ \E clientId \in ClientIds, batches \in EventBatches :
            SubmitOp("s1", clientId, batches, "ok")
    \/ HandOffSteps

SpecHandOff == Init /\ [][NextHandOff]_vars

\* the connect_document messages of the two-socket model: a writer and a
\* reader of document d
TwoSocketMessages ==
    {message \in Messages :
        /\ message.token.present
        /\ TokenClaimsValid(message)
        /\ message.token.claims.lifetime = 2
        /\ message.id = "d"}

\* two sockets, each with its own maps: clients connect on both, and every
\* clientId is tried on both
NextIsolation ==
    \/ ConnectSteps(Sockets, TwoSocketMessages)
    \/ \E s \in Sockets, clientId \in ClientIds :
            SubmitOp(s, clientId, <<One(OpA)>>, "ok")
    \/ \E s \in Sockets, clientId \in ClientIds :
            SubmitSignal(s, clientId, <<One(OpA)>>)
    \/ QuerySteps(Sockets)

SpecIsolation == Init /\ [][NextIsolation]_vars

(***************************************************************************)
(* The negotiator on its own: it is applied to every offer of at most      *)
(* MaxVersions ranges.                                                     *)
(***************************************************************************)
ClientRanges == {<<0, 1, 0>>, <<0, 2, 0>>, <<0, 3, 2>>, <<0, 4, 0>>,
                 <<0, 5, 0>>, <<9, 0, 0>>}

VersionOffers ==
    {NoVersions} \cup
    {GivenVersions(list) :
        list \in UNION {[1..n -> ClientRanges] : n \in 0..MaxVersions}}

NegotiateCall(versions) ==
    /\ negotiated' = [called |-> TRUE, versions |-> versions,
                      result |-> Negotiate(versions)]
    /\ UNCHANGED <<socketVars, tasks, connectOut, clientRegistry, ordererConn,
                   disconnectVars, lastEvent, isTokenExpiryEnabled, nodeVars,
                   queryVars, timeouts>>

NextNegotiate == \E versions \in VersionOffers : NegotiateCall(versions)

SpecNegotiate == Init /\ [][NextNegotiate]_vars

(***************************************************************************)
(* SummarizerNodeWithGC: the unreferenced / inactive state of one node.   *)
(* GC is enabled for the node and no summary is being tracked.             *)
(***************************************************************************)
\* the longest time the wall clock and the GC timestamps reach
MaxTime == 3

\* the configured duration after which an unreferenced node is inactive
maxUnreferencedDurationMs == 2

\* the longest list of routes a GC run reports for the node
MaxRoutes == 2

Routes == {"", "/", "/a"}

\* the position of a route in the order Array.prototype.sort puts strings in
RouteRank(route) == CASE route = "" -> 0 [] route = "/" -> 1 [] OTHER -> 2

RECURSIVE InsertRoute(_, _)
InsertRoute(route, sorted) ==
    IF sorted = <<>> THEN <<route>>
    ELSE IF RouteRank(route) <= RouteRank(Head(sorted))
         THEN <<route>> \o sorted
         ELSE <<Head(sorted)>> \o InsertRoute(route, Tail(sorted))

RECURSIVE SortRoutes(_)
SortRoutes(routes) ==
    IF routes = <<>> THEN <<>>
    ELSE InsertRoute(Head(routes), SortRoutes(Tail(routes)))

RouteLists ==
    UNION {[1..n -> Routes] : n \in 0..MaxRoutes}

isReferenced(routes) == \E i \in 1..Len(routes) : routes[i] \in {"", "/"}

\* logErrorIfInactive: nothing for a node that is not inactive; otherwise the
\* assertion 0x271, and past it one error event whose duration is measured
\* from the timestamp given, or from the wall clock when none is given
logErrorIfInactive(eventName, currentTimestampMs) ==
    IF ~inactive THEN [threw |-> "", errorEvents |-> <<>>]
    ELSE IF unreferencedTimestampMs = Undefined
         THEN [threw |-> "0x271", errorEvents |-> <<>>]
         ELSE [threw |-> "",
               errorEvents |->
                 <<[eventName |-> eventName,
                    unreferencedDuratonMs |->
                      (IF currentTimestampMs = Undefined THEN now
                       ELSE currentTimestampMs) - unreferencedTimestampMs,
                    maxUnreferencedDurationMs |-> maxUnreferencedDurationMs]>>]

\* Timer.start: any pending timeout is replaced by one due msec from now
StartTimer(msec) == Timer(TRUE, msec, now + msec)

NodeState(timestampMs, isInactive, timer) ==
    [unreferencedTimestampMs |-> timestampMs, inactive |-> isInactive,
     unreferencedTimer |-> timer]

\* the part of updateUsedRoutes that handles an unreferenced node, as a
\* function of the gcTimestamp given and of the node's fields
UnreferencedUpdateIgnoringTimer(gcTimestamp) ==
    IF gcTimestamp = Undefined
    THEN NodeState(unreferencedTimestampMs, inactive, unreferencedTimer)
    ELSE IF unreferencedTimestampMs = Undefined
    THEN NodeState(gcTimestamp, inactive, StartTimer(maxUnreferencedDurationMs))
    ELSE IF gcTimestamp - unreferencedTimestampMs >= maxUnreferencedDurationMs
    THEN NodeState(unreferencedTimestampMs, TRUE, unreferencedTimer)
    ELSE NodeState(unreferencedTimestampMs, inactive,
                   StartTimer(maxUnreferencedDurationMs
                              - (gcTimestamp - unreferencedTimestampMs)))

UnreferencedUpdate(gcTimestamp) ==
    IF gcTimestamp = Undefined
    THEN NodeState(unreferencedTimestampMs, inactive, unreferencedTimer)
    ELSE IF unreferencedTimestampMs = Undefined
    THEN NodeState(gcTimestamp, inactive, StartTimer(maxUnreferencedDurationMs))
    ELSE IF inactive \/ unreferencedTimer.hasTimer
    THEN NodeState(unreferencedTimestampMs, inactive, unreferencedTimer)
    ELSE IF gcTimestamp - unreferencedTimestampMs >= maxUnreferencedDurationMs
    THEN NodeState(unreferencedTimestampMs, TRUE, unreferencedTimer)
    ELSE NodeState(unreferencedTimestampMs, inactive,
                   StartTimer(maxUnreferencedDurationMs
                              - (gcTimestamp - unreferencedTimestampMs)))

\* what a call or callback did: the assertion it failed, if any, and the
\* error events it sent to the logger
NodeEvent(call, gcTimestamp, threw, errorEvents) ==
    [call |-> call, gcTimestamp |-> gcTimestamp, threw |-> threw,
     errorEvents |-> errorEvents]

\* updateUsedRoutes(usedRoutes, gcTimestamp): the routes are stored sorted;
\* a referenced node logs if it was inactive and is then cleared, unless
\* the assertion threw first; an unreferenced one is updated as above
updateUsedRoutes(routes, gcTimestamp) ==
    LET sorted == SortRoutes(routes)
        logged == logErrorIfInactive("inactiveObjectRevived", gcTimestamp)
        next == UnreferencedUpdate(gcTimestamp)
    IN /\ usedRoutes' = sorted
       /\ IF isReferenced(sorted)
          THEN /\ nodeEvent' = NodeEvent("updateUsedRoutes", gcTimestamp,
                                         logged.threw, logged.errorEvents)
               /\ IF logged.threw # ""
                  THEN UNCHANGED <<inactive, unreferencedTimestampMs,
                                   unreferencedTimer>>
                  ELSE /\ inactive' = FALSE
                       /\ unreferencedTimestampMs' = Undefined
                       /\ unreferencedTimer' = Timer(FALSE, 0, 0)
          ELSE /\ nodeEvent' = NodeEvent("updateUsedRoutes", gcTimestamp, "",
                                         <<>>)
               /\ unreferencedTimestampMs' = next.unreferencedTimestampMs
               /\ inactive' = next.inactive
               /\ unreferencedTimer' = next.unreferencedTimer
       /\ UNCHANGED <<gcDetailsInInitialSummaryP, referenceUsedRoutes, gcData,
                      getGCDataTask, now, gatewayVars>>

\* the callback the constructor gave the timer, run when the timeout is due
UnreferencedTimerFire ==
    /\ unreferencedTimer.hasTimer
    /\ now >= unreferencedTimer.due
    /\ unreferencedTimer' = [unreferencedTimer EXCEPT !.hasTimer = FALSE]
    /\ inactive' = TRUE
    /\ nodeEvent' = NodeEvent("timer", Undefined, "", <<>>)
    /\ UNCHANGED <<usedRoutes, unreferencedTimestampMs,
                   gcDetailsInInitialSummaryP, referenceUsedRoutes, gcData,
                   getGCDataTask, now, gatewayVars>>

\* the wall clock advances
Tick ==
    /\ now < MaxTime
    /\ now' = now + 1
    /\ nodeEvent' = NodeEvent("tick", Undefined, "", <<>>)
    /\ UNCHANGED <<usedRoutes, unreferencedTimestampMs, inactive,
                   unreferencedTimer, gcDetailsInInitialSummaryP,
                   referenceUsedRoutes, gcData, getGCDataTask, gatewayVars>>

\* recordChange(op): logs if the node is inactive, then records the op
recordChange ==
    /\ LET logged == logErrorIfInactive("inactiveObjectChanged", Undefined)
       IN nodeEvent' = NodeEvent("recordChange", Undefined, logged.threw,
                                 logged.errorEvents)
    /\ UNCHANGED <<usedRoutes, unreferencedTimestampMs, inactive,
                   unreferencedTimer, gcDetailsInInitialSummaryP,
                   referenceUsedRoutes, gcData, getGCDataTask, now,
                   gatewayVars>>

\* getGCData past the load of the initial details: the data held is
\* returned when nothing changed since the last summary, else new data is
\* awaited from the underlying object
AfterLoad(fullGC, hasDataChanged, data) ==
    IF ~fullGC /\ ~hasDataChanged /\ data # "undefined" THEN "idle"
    ELSE "fetching"

\* the initial GC details a summary can hold: data or none, the used routes
\* and the time the node became unreferenced, if it was
InitialDetails ==
    [gcData : BOOLEAN, usedRoutes : {<<>>, <<"">>},
     unrefTimestamp : {Undefined, 0, 1}]

\* getGCData(fullGC) up to its first await: the first call takes the lazy
\* promise and waits for the initial details, a later one goes on at once
getGCData(fullGC, hasDataChanged) ==
    /\ getGCDataTask = "idle"
    /\ IF gcDetailsInInitialSummaryP = "lazy"
       THEN /\ gcDetailsInInitialSummaryP' = "undefined"
            /\ getGCDataTask' = IF fullGC THEN "loadingFull" ELSE "loading"
       ELSE /\ UNCHANGED gcDetailsInInitialSummaryP
            /\ getGCDataTask' = AfterLoad(fullGC, hasDataChanged, gcData)
    /\ nodeEvent' = NodeEvent("getGCData", Undefined, "", <<>>)
    /\ UNCHANGED <<usedRoutes, unreferencedTimestampMs, inactive,
                   unreferencedTimer, referenceUsedRoutes, gcData, now,
                   gatewayVars>>

\* loadInitialGCSummaryDetails past its await: the node takes the GC data
\* if the details have some, and their used routes and unreferenced
\* timestamp whatever they are; getGCData then goes on
loadInitialGCSummaryDetails(details, hasDataChanged) ==
    /\ getGCDataTask \in {"loading", "loadingFull"}
    /\ gcData' = IF details.gcData THEN "initial" ELSE gcData
    /\ referenceUsedRoutes' = [defined |-> TRUE, routes |-> details.usedRoutes]
    /\ unreferencedTimestampMs' = details.unrefTimestamp
    /\ getGCDataTask' = AfterLoad(getGCDataTask = "loadingFull",
                                  hasDataChanged, gcData')
    /\ nodeEvent' = NodeEvent("loadInitialGCSummaryDetails", Undefined, "", <<>>)
    /\ UNCHANGED <<usedRoutes, inactive, unreferencedTimer,
                   gcDetailsInInitialSummaryP, now, gatewayVars>>

\* getGCData past the await of getGCDataFn: the new data is kept, unless
\* the underlying object failed to produce it
GCDataFetched(ok) ==
    /\ getGCDataTask = "fetching"
    /\ getGCDataTask' = "idle"
    /\ gcData' = IF ok THEN "computed" ELSE gcData
    /\ nodeEvent' = NodeEvent("getGCDataFn", Undefined, "", <<>>)
    /\ UNCHANGED <<usedRoutes, unreferencedTimestampMs, inactive,
                   unreferencedTimer, gcDetailsInInitialSummaryP,
                   referenceUsedRoutes, now, gatewayVars>>

\* one node: GC runs update its routes, with or without a timestamp, ops
\* change it, its GC data is asked for, time passes and the timer fires
NextNode ==
    \/ \E routes \in RouteLists, gcTimestamp \in 0..MaxTime \cup {Undefined} :
          updateUsedRoutes(routes, gcTimestamp)
    \/ UnreferencedTimerFire
    \/ Tick
    \/ recordChange
    \/ \E fullGC \in BOOLEAN, hasDataChanged \in BOOLEAN :
          getGCData(fullGC, hasDataChanged)
    \/ \E details \in InitialDetails, hasDataChanged \in BOOLEAN :
          loadInitialGCSummaryDetails(details, hasDataChanged)
    \/ \E ok \in BOOLEAN : GCDataFetched(ok)

SpecNode == Init /\ [][NextNode]_vars

(***************************************************************************)
(* Properties.                                                             *)
(***************************************************************************)
Accepted(r) ==
    /\ Len(connectOut[r]) > 0
    /\ connectOut[r][1].event = "connect_document_success"

Rejected(r) ==
    /\ Len(connectOut[r]) > 0
    /\ connectOut[r][1].event = "connect_document_error"

IsRoomJoin(e, clientId) ==
    /\ e.event = "signal"
    /\ e.body.type = "join"
    /\ e.body.clientId = clientId

\* C1: a connect_document that ended in connect_document_error has left no
\* entry for the clientId it minted in connectionsMap, roomMap or scopeMap
\* of its socket (the maps are as they were before the request).
C1_RejectedConnectCommitsNothing ==
    \A r \in Requests :
        Rejected(r) /\ tasks[r].clientId # NoClientId =>
            /\ ~MapHas(connectionsMap[tasks[r].socket], tasks[r].clientId)
            /\ ~MapHas(roomMap[tasks[r].socket], tasks[r].clientId)
            /\ ~MapHas(scopeMap[tasks[r].socket], tasks[r].clientId)

\* the operands of the submitOp claims, read off the turn just run
SubmitOpRan == lastEvent.event = "submitOp"
HasConnection == MapHas(connectionsMap[lastEvent.socket], lastEvent.clientId)
InRoomMap == MapHas(roomMap[lastEvent.socket], lastEvent.clientId)
Throttled == lastEvent.throttle = "exceeded"
\* some batch element holds a message that is not a RoundTrip
HasOrderableOp ==
    \E i \in 1..Len(lastEvent.batches) :
        \E j \in 1..Len(lastEvent.batches[i].items) :
            lastEvent.batches[i].items[j].type # RoundTrip

\* C2 as claimed: submitOp hands a batch to connection.order if and only
\* if the clientId is in connectionsMap; in every other case exactly one
\* nack is emitted and nothing is forwarded.
C2_ForwardedIffConnected ==
    SubmitOpRan =>
        /\ (Len(lastEvent.ordered) > 0) <=> HasConnection
        /\ ~HasConnection =>
              Len(lastEvent.nacks) = 1 /\ lastEvent.ordered = <<>>

\* C2 amended: connection.order is called only for a clientId in
\* connectionsMap, and then if and only if the rate limiter does not signal
\* exceeded and some batch element keeps a message that is not a RoundTrip;
\* a clientId not in connectionsMap, and a throttled one, gets exactly one
\* nack and nothing is forwarded; an unthrottled writer gets no nack.
C2_WriterGating ==
    SubmitOpRan =>
        /\ (Len(lastEvent.ordered) > 0) <=>
              (HasConnection /\ ~Throttled /\ HasOrderableOp)
        /\ ~HasConnection \/ Throttled =>
              /\ Len(lastEvent.nacks) = 1
              /\ lastEvent.ordered = <<>>
              /\ lastEvent.metrics = <<>>
        /\ HasConnection /\ ~Throttled => lastEvent.nacks = <<>>

C2_Witness ==
    /\ SubmitOpRan
    /\ HasConnection
    /\ Len(lastEvent.ordered) > 1

\* C3: the nack of a submitOp for a clientId not in connectionsMap is
\* (400, BadRequestError, "Readonly client") when the clientId is in roomMap
\* with DocWrite or SummaryWrite among its recorded scopes, (403,
\* InvalidScopeError, "Invalid scope") when it is in roomMap without them,
\* and (400, BadRequestError, "Nonexistent client") when it is not in
\* roomMap.
C3_NackDecisionTable ==
    SubmitOpRan /\ ~HasConnection =>
        LET scopes == MapGet(scopeMap[lastEvent.socket], lastEvent.clientId)
        IN lastEvent.nacks =
            << IF InRoomMap /\ (DocWrite \in scopes \/ SummaryWrite \in scopes)
               THEN [code |-> 400, type |-> "BadRequestError",
                     message |-> "Readonly client", retryAfter |-> 0]
               ELSE IF InRoomMap
               THEN [code |-> 403, type |-> "InvalidScopeError",
                     message |-> "Invalid scope", retryAfter |-> 0]
               ELSE [code |-> 400, type |-> "BadRequestError",
                     message |-> "Nonexistent client", retryAfter |-> 0] >>

\* a write-capable client that connected with mode "read" is told
\* "Readonly client"
C3_Witness ==
    /\ SubmitOpRan
    /\ \E r \in Requests :
          /\ Accepted(r)
          /\ connectOut[r][1].body.mode = "read"
          /\ connectOut[r][1].body.clientId = lastEvent.clientId
          /\ DocWrite \in connectOut[r][1].body.claims.scopes
    /\ Len(lastEvent.nacks) = 1
    /\ lastEvent.nacks[1].message = "Readonly client"

\* the descriptor a connect has handed to the client registry and to the
\* orderer, once it has: the one the join signal carries, or the one of a
\* connect suspended after its composition
DescriptorsOf(r) ==
    (IF tasks[r].pc \in {"getClients", "addClient", "getOrderer",
                         "ordererConnect"}
     THEN {tasks[r].messageClient} ELSE {})
    \cup {connectOut[r][i].body.client :
            i \in {j \in 1..Len(connectOut[r]) :
                      connectOut[r][j].event = "signal"}}

\* C4: for every accepted connect_document whose details.type is not
\* "summarizer", the scopes stored in scopeMap for its clientId, and the
\* scopes of the descriptor given to the registry and the orderer, hold no
\* SummaryWrite; nor does the descriptor of such a connect while it is
\* still in progress.
C4_NoSummaryWriteForNonSummarizer ==
    \A r \in Requests :
        /\ \A d \in DescriptorsOf(r) :
              d.details.type # "summarizer" => "summary:write" \notin d.scopes
        /\ Accepted(r) =>
              \A d \in DescriptorsOf(r) :
                  d.details.type # "summarizer" =>
                      "summary:write" \notin
                          MapGet(scopeMap[tasks[r].socket],
                                 connectOut[r][1].body.clientId)

\* an accepted container whose token claims SummaryWrite
C4_Witness ==
    \E r \in Requests :
        /\ Accepted(r)
        /\ "summary:write" \in connectOut[r][1].body.claims.scopes
        /\ \E d \in DescriptorsOf(r) : d.details.type = "container"

\* the k-th payload of the flattened batches
RECURSIVE PayloadAt(_, _)
PayloadAt(batches, k) ==
    IF k <= Len(Head(batches).items)
    THEN Head(batches).items[k]
    ELSE PayloadAt(Tail(batches), k - Len(Head(batches).items))

RECURSIVE PayloadCount(_)
PayloadCount(batches) ==
    IF batches = <<>> THEN 0
    ELSE Len(Head(batches).items) + PayloadCount(Tail(batches))

\* C5: a submitSignal from a clientId in roomMap makes exactly one "signal"
\* broadcast {clientId, content} to the client's room per flattened
\* payload, in payload order, consults no rate limiter and emits no nack;
\* from a clientId not in roomMap it emits exactly one nack (400,
\* BadRequestError, "Nonexistent client") and broadcasts nothing.
C5_SignalGating ==
    lastEvent.event = "submitSignal" =>
        /\ lastEvent.throttle = "unused"
        /\ lastEvent.ordered = <<>>
        /\ IF InRoomMap
           THEN LET room == MapGet(roomMap[lastEvent.socket],
                                   lastEvent.clientId)
                IN /\ lastEvent.nacks = <<>>
                   /\ Len(lastEvent.signals) = PayloadCount(lastEvent.batches)
                   /\ \A k \in 1..Len(lastEvent.signals) :
                        lastEvent.signals[k] =
                            [to |-> room.tenantId \o "/" \o room.documentId,
                             event |-> "signal",
                             body |-> [clientId |-> lastEvent.clientId,
                                       content |->
                                         PayloadAt(lastEvent.batches, k)]]
           ELSE /\ lastEvent.signals = <<>>
                /\ lastEvent.nacks =
                     <<[code |-> 400, type |-> "BadRequestError",
                        message |-> "Nonexistent client", retryAfter |-> 0]>>

\* a reader (no orderer connection) broadcasts several payloads
C5_Witness ==
    /\ lastEvent.event = "submitSignal"
    /\ InRoomMap
    /\ ~HasConnection
    /\ Len(lastEvent.signals) > 2

\* C6: an accepted connect_document emits connect_document_success and then
\* exactly one room-join signal for its clientId, to the room
\* tenantId/documentId of its claims, and nothing else; a rejected one
\* emits its error and no room-join signal.
C6_OneJoinAfterSuccess ==
    \A r \in Requests :
        /\ Accepted(r) =>
              LET connected == connectOut[r][1].body
              IN /\ Len(connectOut[r]) = 2
                 /\ IsRoomJoin(connectOut[r][2], connected.clientId)
                 /\ connectOut[r][2].to =
                       connected.claims.tenantId \o "/" \o
                           connected.claims.documentId
        /\ Rejected(r) => Len(connectOut[r]) = 1
        /\ Len(connectOut[r]) > 0 => Accepted(r) \/ Rejected(r)

C6_Witness ==
    \E r \in Requests :
        /\ Accepted(r)
        /\ connectOut[r][1].body.mode = "write"
        /\ Len(connectOut[r]) = 2

\* how often a call is in a handler's record
CountCalls(calls, name, clientId, room) ==
    Cardinality({i \in 1..Len(calls) :
                    calls[i] = [call |-> name, clientId |-> clientId,
                                room |-> room]})

C8_ConnectionsSubsetOfRooms ==
    \A s \in Sockets :
        \A i \in 1..Len(connectionsMap[s]) :
            \E j \in 1..Len(roomMap[s]) :
                roomMap[s][j].key = connectionsMap[s][i].key

C8_Witness ==
    \E s \in Sockets :
        /\ Len(connectionsMap[s]) = 2
        /\ socketState[s] = "closed"

\* C9: roomMap and scopeMap have the same clientId keys in every state,
\* also while a connect_document is suspended.
C9_RoomKeysEqualScopeKeys ==
    \A s \in Sockets :
        {roomMap[s][i].key : i \in 1..Len(roomMap[s])}
            = {scopeMap[s][i].key : i \in 1..Len(scopeMap[s])}

\* a connect is suspended at getClients with its entries already written
C9_Witness ==
    \E r \in Requests :
        /\ tasks[r].pc = "getClients"
        /\ MapHas(roomMap[tasks[r].socket], tasks[r].clientId)

\* the first server range that intersects any of the offered ranges
BestServerRange(offered) ==
    LET meets(j) == \E i \in 1..Len(offered) :
                        intersects(protocolVersions[j], offered[i])
    IN IF \E j \in 1..Len(protocolVersions) : meets(j)
       THEN protocolVersions[CHOOSE j \in 1..Len(protocolVersions) :
                                meets(j) /\ \A k \in 1..(j - 1) : ~meets(k)]
       ELSE NoVersion

\* C10: the negotiated version is the first server range that intersects
\* any of the client's ranges, whatever the order the client lists them in,
\* and the connect is rejected with code 400 when no server range
\* intersects any client range.
C10_FirstServerRangeWins ==
    negotiated.called /\ negotiated.versions.given =>
        LET best == BestServerRange(negotiated.versions.list)
        IN /\ negotiated.result.version = best
           /\ negotiated.result.rejected <=> best = NoVersion
           /\ negotiated.result.rejected => negotiated.result.code = 400

\* C11: a connect_document whose versions list is empty, or absent, is
\* negotiated as if the client had offered ["^0.1.0"]: it is not rejected
\* for protocol mismatch and the chosen version is ^0.1.0.
C11_EmptyOfferIsDefault ==
    negotiated.called
    /\ (~negotiated.versions.given \/ negotiated.versions.list = <<>>) =>
        /\ ~negotiated.result.rejected
        /\ negotiated.result.version = <<0, 1, 0>>

\* C12: the client registry never holds more than
\* maxNumberOfClientsPerDocument clients for a document, and a quota
\* rejection carries code 429 with retryAfter 300.
C12_QuotaIsHardCap ==
    /\ \A c \in clientRegistry :
          Cardinality({e \in clientRegistry :
                          e.tenantId = c.tenantId
                          /\ e.documentId = c.documentId})
              <= maxNumberOfClientsPerDocument
    /\ \A r \in Requests :
          Rejected(r)
          /\ connectOut[r][1].body.message
                = "Too Many Clients Connected to Document" =>
              /\ connectOut[r][1].body.code = 429
              /\ connectOut[r][1].body.retryAfter = 300

\* C13: a pending expirationTimer of a socket fires no later than the
\* soonest token expiration among the clients accepted on that socket
\* (lifetimes are counted from the one instant the behaviour's connects
\* arrive at; a connect arriving later only moves its own deadline further
\* out).
C13_TimerIsSoonestExpiration ==
    \A s \in Sockets :
        expirationTimer[s].state = "pending" =>
            \A r \in Requests :
                Accepted(r) /\ tasks[r].socket = s =>
                    expirationTimer[s].msec
                        <= connectOut[r][1].body.claims.lifetime * 1000

\* C14: with token expiry on, once the timer armed for an accepted
\* connect_document is no longer pending (it has fired, or the socket's
\* closing has cleared it), the socket is closed and its disconnect
\* handling has broadcast exactly one room-leave and called removeClient
\* exactly once for the connect's clientId.
C14_ExpiryClosesAndCleansUp ==
    isTokenExpiryEnabled =>
        \A r \in Requests :
            Accepted(r) /\ expirationTimer[tasks[r].socket].state # "pending" =>
                LET s == tasks[r].socket
                    clientId == connectOut[r][1].body.clientId
                    room == [tenantId |-> connectOut[r][1].body.claims.tenantId,
                             documentId |->
                                 connectOut[r][1].body.claims.documentId]
                IN /\ socketState[s] = "closed"
                   /\ CountCalls(disconnectOut[s], "emitToRoom leave",
                                 clientId, room) = 1
                   /\ CountCalls(disconnectOut[s], "removeClient",
                                 clientId, room) = 1

\* C15: a connect_document is accepted as a writer (its orderer connection
\* was obtained and is stored in connectionsMap, the response has mode
\* "write" with the orderer connection's maxMessageSize and service
\* configuration) if and only if its effective scopes hold DocWrite or
\* SummaryWrite and it requested mode "write"; otherwise it is accepted as a
\* reader: no orderer was asked for, connectionsMap has no entry for it, and
\* the response has mode "read", maxMessageSize 1024 and the default service
\* configuration.
C15_WriterIffScopesAndMode ==
    /\ [][\A r \in Requests :
            ~Accepted(r) /\ Accepted(r)' =>
                LET t == tasks[r]
                    s == t.socket
                    connected == connectOut'[r][1].body
                    writer == /\ ("doc:write" \in t.messageClient.scopes
                                  \/ "summary:write" \in t.messageClient.scopes)
                              /\ t.message.mode = "write"
                IN IF writer
                   THEN /\ t.pc = "ordererConnect"
                        /\ ordererConn'[r].opened
                        /\ MapHas(connectionsMap'[s], connected.clientId)
                        /\ connected.mode = "write"
                        /\ connected.maxMessageSize = OrdererMaxMessageSize
                        /\ connected.serviceConfiguration
                              = OrdererServiceConfiguration
                   ELSE /\ t.pc = "addClient"
                        /\ ~ordererConn'[r].opened
                        /\ ~MapHas(connectionsMap'[s], connected.clientId)
                        /\ connected.mode = "read"
                        /\ connected.maxMessageSize = 1024
                        /\ connected.serviceConfiguration
                              = DefaultServiceConfiguration]_vars
    /\ [](\A r \in Requests :
            Accepted(r) =>
                (connectOut[r][1].body.mode = "write"
                    <=> MapHas(connectionsMap[tasks[r].socket],
                               connectOut[r][1].body.clientId)))

\* a write-capable client that asked to read has been accepted as a reader
C15_Witness ==
    \E r \in Requests :
        /\ Accepted(r)
        /\ connectOut[r][1].body.mode = "read"
        /\ "doc:write" \in connectOut[r][2].body.client.scopes
        /\ ~ordererConn[r].opened

\* the ops of the flattened batches that are not RoundTrip messages
OrderablePayloads(batches) ==
    {k \in 1..PayloadCount(batches) : PayloadAt(batches, k).type # RoundTrip}

RECURSIVE TotalLen(_)
TotalLen(lists) ==
    IF lists = <<>> THEN 0 ELSE Len(Head(lists)) + TotalLen(Tail(lists))

\* C16: a submitOp of a connected client is counted under the key
\* "<clientId>_<tenantId>_SubmitOp"; when the limiter signals exceeded it
\* emits exactly one nack carrying the limiter's code, ThrottlingError, the
\* limiter's message and retryAfter, and hands nothing to the orderer or
\* the metric sink; when it is not throttled, as many ops reach the orderer
\* as the batches hold ops that are not RoundTrip (none is handed on twice).
C16_ThrottledSubmitOp ==
    SubmitOpRan /\ HasConnection =>
        /\ lastEvent.throttleId =
              lastEvent.clientId \o "_"
                \o MapGet(connectionsMap[lastEvent.socket],
                          lastEvent.clientId).tenantId
                \o "_SubmitOp"
        /\ Throttled =>
              /\ lastEvent.nacks =
                    <<[code |-> ThrottlingError.code,
                       type |-> "ThrottlingError",
                       message |-> ThrottlingError.message,
                       retryAfter |-> ThrottlingError.retryAfter]>>
              /\ lastEvent.ordered = <<>>
              /\ lastEvent.metrics = <<>>
        /\ ~Throttled =>
              TotalLen(lastEvent.ordered)
                  = Cardinality(OrderablePayloads(lastEvent.batches))

\* a writer's submitOp with several ops has been throttled
C16_Witness ==
    /\ SubmitOpRan
    /\ HasConnection
    /\ Throttled
    /\ Cardinality(OrderablePayloads(lastEvent.batches)) > 1
    /\ Len(lastEvent.nacks) = 1

\* the request the connect_document turn just run belongs to
LastRequest ==
    CHOOSE r \in Requests :
        /\ tasks[r].pc # "idle"
        /\ \A q \in Requests : tasks[q].pc # "idle" => q <= r

\* C17: the throttle guard rejects only on the limiter's throttling error.
\* When the limiter is absent, or its increment fails otherwise, a
\* connect_document goes on as after a successful increment (to the token
\* checks: 403 without a token, 401 on mismatching claims, else on to
\* verifyToken) and a connected client's submitOp is not nacked and hands
\* on all its ops; a connect_document is rejected with the limiter's error
\* exactly when the limiter signals exceeded.
C17_ThrottleFailOpen ==
    /\ lastEvent.event = "connect_document" =>
          LET r == LastRequest
              message == lastEvent.batches[1]
              throttled ==
                  /\ Rejected(r)
                  /\ connectOut[r][1].body =
                        [code |-> 429, message |-> "throttled",
                         retryAfter |-> 1]
          IN /\ throttled <=> lastEvent.throttle = "exceeded"
             /\ lastEvent.throttle \in {"absent", "fault", "ok"} =>
                   IF ~message.token.present
                   THEN Rejected(r) /\ connectOut[r][1].body.code = 403
                   ELSE IF message.token.claims.documentId # message.id
                   THEN Rejected(r) /\ connectOut[r][1].body.code = 401
                   ELSE /\ tasks[r].pc = "verifyToken"
                        /\ tasks[r].message = message
                        /\ connectOut[r] = <<>>
    /\ SubmitOpRan /\ HasConnection
       /\ lastEvent.throttle \in {"absent", "fault", "ok"} =>
          /\ lastEvent.nacks = <<>>
          /\ TotalLen(lastEvent.ordered)
                = Cardinality(OrderablePayloads(lastEvent.batches))

\* a connect_document whose limiter failed internally has gone on to
\* verifyToken
C17_Witness ==
    /\ lastEvent.event = "connect_document"
    /\ lastEvent.throttle = "fault"
    /\ tasks[LastRequest].pc = "verifyToken"

\* C18: when the room joins, the client-list fetch, addClient, getOrderer
\* or orderer.connect fail during a connect_document, the client is sent
\* exactly {code 500, "Failed to connect client to document."} as
\* connect_document_error, and nothing else: no connect_document_success
\* and no error of the collaborator.
C18_InternalFaultIsOpaque ==
    lastEvent.event = "settled"
    /\ lastEvent.outcome = "rejected"
    /\ lastEvent.step \in {"join", "getClients", "addClient", "getOrderer",
                           "ordererConnect"} =>
        /\ connectOut[lastEvent.request] =
              <<[to |-> "socket", event |-> "connect_document_error",
                 body |-> [code |-> 500,
                           message |-> "Failed to connect client to document.",
                           retryAfter |-> 0]]>>
        /\ tasks[lastEvent.request].pc = "done"

\* orderer.connect has failed for a writer whose registry add succeeded
C18_Witness ==
    /\ lastEvent.event = "settled"
    /\ lastEvent.outcome = "rejected"
    /\ lastEvent.step = "ordererConnect"
    /\ Rejected(lastEvent.request)

\* a connect_document that has arrived and has not yet emitted its success
\* or error
InProgress(r) == tasks[r].pc \notin {"idle", "done"}

\* C19: while a connect_document of a socket is in progress no other
\* handler of that socket runs: no submitOp or submitSignal is handled, no
\* other connect_document is started, and the socket's disconnect handler
\* does not run.
C19_HandlersDoNotInterleave ==
    /\ lastEvent.event \in {"submitOp", "submitSignal"} =>
          \A r \in Requests :
              InProgress(r) => tasks[r].socket # lastEvent.socket
    /\ \A r, q \in Requests :
          InProgress(r) /\ InProgress(q) /\ r # q =>
              tasks[r].socket # tasks[q].socket
    /\ \A r \in Requests :
          InProgress(r) => socketState[tasks[r].socket] = "open"

\* the RoundTrip messages of the flattened batches that carry traces
TracedTrips(batches) ==
    {k \in 1..PayloadCount(batches) :
        /\ PayloadAt(batches, k).type = RoundTrip
        /\ "traces" \in DOMAIN PayloadAt(batches, k)}

\* C20: no message handed to connection.order has a field outside
\* {clientSequenceNumber, contents, metadata, referenceSequenceNumber,
\* traces, type} and none is a RoundTrip message; a submitOp that is
\* processed (connected client, not throttled) calls writeLatencyMetric once
\* for each of its RoundTrip messages that carries traces, with those
\* traces, and not for one that carries none; no other submitOp calls it.
C20_Sanitization ==
    SubmitOpRan =>
        /\ \A i \in 1..Len(lastEvent.ordered) :
              \A j \in 1..Len(lastEvent.ordered[i]) :
                  /\ DOMAIN lastEvent.ordered[i][j] \subseteq
                        {"clientSequenceNumber", "contents", "metadata",
                         "referenceSequenceNumber", "traces", "type"}
                  /\ lastEvent.ordered[i][j].type # "tripComplete"
        /\ Len(lastEvent.metrics) =
              IF HasConnection /\ ~Throttled
              THEN Cardinality(TracedTrips(lastEvent.batches))
              ELSE 0
        /\ \A m \in 1..Len(lastEvent.metrics) :
              \E k \in TracedTrips(lastEvent.batches) :
                  lastEvent.metrics[m] = PayloadAt(lastEvent.batches, k).traces

\* a batch with a field outside the list, a traced and an untraced
\* RoundTrip has been processed
C20_Witness ==
    /\ SubmitOpRan
    /\ Len(lastEvent.metrics) = 1
    /\ TotalLen(lastEvent.ordered) >= 3
    /\ \E k \in 1..PayloadCount(lastEvent.batches) :
          "unlisted" \in DOMAIN PayloadAt(lastEvent.batches, k)
    /\ \E k \in 1..PayloadCount(lastEvent.batches) :
          /\ PayloadAt(lastEvent.batches, k).type = RoundTrip
          /\ "traces" \notin DOMAIN PayloadAt(lastEvent.batches, k)

\* an entry of a per-socket map is never dropped, moved or rewritten
KeepsEntries(before, after) ==
    /\ Len(after) >= Len(before)
    /\ \A i \in 1..Len(before) : after[i] = before[i]

\* C21: an accepted connect_document on a socket that already has clients
\* mints a clientId different from every clientId on the socket and adds it
\* to roomMap and scopeMap (and to connectionsMap for a writer); the entries
\* the earlier clientIds have in connectionsMap, roomMap and scopeMap are
\* left as they were, so the earlier clients go on submitting.
C21_SecondConnectKeepsEarlierClients ==
    /\ [][\A s \in Sockets :
            /\ KeepsEntries(connectionsMap[s], connectionsMap'[s])
            /\ KeepsEntries(roomMap[s], roomMap'[s])
            /\ KeepsEntries(scopeMap[s], scopeMap'[s])]_vars
    /\ [](\A r \in Requests :
            Accepted(r) =>
              LET s == tasks[r].socket
                  clientId == connectOut[r][1].body.clientId
              IN /\ MapHas(roomMap[s], clientId)
                 /\ MapHas(scopeMap[s], clientId)
                 /\ connectOut[r][1].body.mode = "write" =>
                        MapHas(connectionsMap[s], clientId)
                 /\ \A q \in Requests \ {r} :
                        tasks[q].clientId # clientId
                 /\ Cardinality({i \in 1..Len(roomMap[s]) :
                                    roomMap[s][i].key = clientId}) = 1)

\* the socket's first client, a writer, has an op ordered after a second
\* client was accepted on the socket
C21_Witness ==
    /\ Accepted(1) /\ Accepted(2)
    /\ tasks[1].socket = tasks[2].socket
    /\ SubmitOpRan
    /\ lastEvent.clientId = connectOut[1][1].body.clientId
    /\ Len(lastEvent.ordered) > 0
    /\ Len(roomMap[tasks[1].socket]) = 2

\* the disconnect handler of socket s has run
HandlerRan(s) == disconnectTask[s].pc # "idle"

\* C22: once the disconnect handler of a socket has run, connectionsMap,
\* roomMap and scopeMap of the socket hold no clientId and the socket's
\* expiration timer is undefined; and no later step writes the maps or the
\* timer.
C22_StateDestroyedOnDisconnect ==
    [][\A s \in Sockets :
         /\ HandlerRan(s)' =>
               /\ connectionsMap'[s] = <<>>
               /\ roomMap'[s] = <<>>
               /\ scopeMap'[s] = <<>>
               /\ expirationTimer'[s] = NoTimer
         /\ HandlerRan(s) =>
               /\ connectionsMap'[s] = connectionsMap[s]
               /\ roomMap'[s] = roomMap[s]
               /\ scopeMap'[s] = scopeMap[s]
               /\ expirationTimer'[s] = expirationTimer[s]]_vars

\* C30: a socket has at most one live timeout, and it is the one whose
\* handle the timer variable holds: a timeout that was cleared or replaced
\* is no longer live and cannot fire, and while the timer variable is
\* undefined (after clearExpirationTimer, until a connect arms a new timer)
\* the socket has no live timeout at all.
C30_SinglePendingTimer ==
    \A s \in Sockets :
        /\ Cardinality(timeouts[s]) <= 1
        /\ timeouts[s] # {} =>
              /\ expirationTimer[s].state = "pending"
              /\ timeouts[s] = {expirationTimer[s].handle}
        /\ expirationTimer[s] = NoTimer => timeouts[s] = {}

\* the timer of the socket's first client was replaced by the timer of its
\* second client
C30_Witness ==
    /\ Accepted(1) /\ Accepted(2)
    /\ tasks[1].socket = "s1" /\ tasks[2].socket = "s1"
    /\ socketState["s1"] = "open"
    /\ expirationTimer["s1"].handle = 2
    /\ timeouts["s1"] = {2}

\* C23: a ping or get_clients for a clientId that is not in roomMap emits
\* exactly one nack (400, BadRequestError, "Nonexistent client") and
\* broadcasts nothing; for a clientId in roomMap, ping broadcasts exactly
\* one pong carrying the clientId to the client's room, get_clients emits
\* no nack, and once its fetch has settled exactly one connected_clients
\* with the registry's list has been broadcast to that room.
C23_PingAndGetClients ==
    /\ lastEvent.event \in {"ping", "get_clients"} /\ ~InRoomMap =>
          /\ lastEvent.nacks =
                <<[code |-> 400, type |-> "BadRequestError",
                   message |-> "Nonexistent client", retryAfter |-> 0]>>
          /\ lastEvent.signals = <<>>
    /\ lastEvent.event = "ping" /\ InRoomMap =>
          /\ lastEvent.nacks = <<>>
          /\ lastEvent.signals =
                <<[to |-> getRoomId(MapGet(roomMap[lastEvent.socket],
                                           lastEvent.clientId)),
                   event |-> "pong", body |-> lastEvent.clientId]>>
    /\ lastEvent.event = "get_clients" /\ InRoomMap =>
          /\ lastEvent.nacks = <<>>
          /\ \E query \in getClientsTask[lastEvent.socket] :
                query.clientId = lastEvent.clientId
    /\ lastEvent.event = "connected_clients" =>
          LET room == MapGet(roomMap[lastEvent.socket], lastEvent.clientId)
          IN /\ lastEvent.nacks = <<>>
             /\ lastEvent.signals =
                   <<[to |-> getRoomId(room), event |-> "connected_clients",
                      body |-> {c \in clientRegistry :
                                   /\ c.tenantId = room.tenantId
                                   /\ c.documentId = room.documentId}]>>

\* C24: a rejection of connection.connect() or of connection.order(...) is
\* handled: the client is sent no connect_document_error for it, and the
\* rejected promise is never left without a handler.
C24_HandOffRejectionsHandled ==
    /\ "connection.connect" \notin unhandledRejections
    /\ "connection.order" \notin unhandledRejections
    /\ \A r \in Requests :
          ordererConn[r].connectP = "rejected" =>
              \A i \in 1..Len(connectOut[r]) :
                  connectOut[r][i].event # "connect_document_error"

\* the accepted requests that minted the clientId of the turn just run
AcceptedAs(mode) ==
    {r \in Requests :
        /\ Accepted(r)
        /\ connectOut[r][1].body.clientId = lastEvent.clientId
        /\ connectOut[r][1].body.mode = mode}

NackMessages == {lastEvent.nacks[i].message : i \in 1..Len(lastEvent.nacks)}

\* when connect_document_success has been emitted for a clientId, the
\* clientId is in roomMap and scopeMap and, for response mode "write", in
\* connectionsMap with connect() initiated on its orderer connection
CommittedBeforeSuccess ==
    \A r \in Requests :
        Accepted(r) =>
            LET s == tasks[r].socket
                clientId == connectOut[r][1].body.clientId
            IN /\ MapHas(roomMap[s], clientId)
               /\ MapHas(scopeMap[s], clientId)
               /\ connectOut[r][1].body.mode = "write" =>
                     /\ MapHas(connectionsMap[s], clientId)
                     /\ ordererConn[r].connects = 1

\* C25 as claimed: the clientId is committed before the success is
\* emitted, so a submitOp or submitSignal of an accepted client is never
\* nacked as "Nonexistent client" or "Readonly client".
C25_NeverNackedAfterSuccess ==
    /\ CommittedBeforeSuccess
    /\ lastEvent.event \in {"submitOp", "submitSignal"}
       /\ AcceptedAs("read") \cup AcceptedAs("write") # {} =>
          NackMessages \cap {"Nonexistent client", "Readonly client"} = {}

\* C25 amended: the clientId is committed before the success is emitted,
\* so a submitSignal of an accepted client is never nacked, a submitOp of a
\* client accepted in mode "write" is never nacked as "Nonexistent client"
\* or "Readonly client", and a submitOp of a client accepted in mode "read"
\* is always nacked, as "Readonly client" or "Invalid scope" and never as
\* "Nonexistent client".
C25_SuccessAfterCommit ==
    /\ CommittedBeforeSuccess
    /\ lastEvent.event = "submitSignal"
       /\ AcceptedAs("read") \cup AcceptedAs("write") # {} =>
          lastEvent.nacks = <<>>
    /\ lastEvent.event = "submitOp" /\ AcceptedAs("write") # {} =>
          NackMessages \cap {"Nonexistent client", "Readonly client"} = {}
    /\ lastEvent.event = "submitOp" /\ AcceptedAs("read") # {} =>
          /\ Len(lastEvent.nacks) = 1
          /\ NackMessages \subseteq {"Readonly client", "Invalid scope"}

\* a writer's op is ordered after its success, connect() having been
\* initiated on its connection
C25_Witness ==
    /\ lastEvent.event = "submitOp"
    /\ \E r \in AcceptedAs("write") : ordererConn[r].connects = 1
    /\ lastEvent.nacks = <<>>
    /\ Len(lastEvent.ordered) = 1

\* the positions of the ops of a batch element that are not RoundTrip
SurvivingOps(batch) ==
    {j \in 1..Len(batch.items) : batch.items[j].type # RoundTrip}

\* the batch elements that keep at least one op
SurvivingElements(batches) ==
    {i \in 1..Len(batches) : SurvivingOps(batches[i]) # {}}

\* the k-th smallest member of a set of positions
Nth(positions, k) ==
    CHOOSE i \in positions : Cardinality({j \in positions : j < i}) = k - 1

\* C26: an unthrottled submitOp of a writer calls connection.order once for
\* each batch element that keeps an op after the RoundTrip messages are
\* removed and never for an element left empty; the calls are in batch
\* arrival order, and the list of each call holds the surviving ops of its
\* element in their order.
C26_OrderPerBatchElement ==
    SubmitOpRan /\ HasConnection /\ ~Throttled =>
        LET batches == lastEvent.batches
            elements == SurvivingElements(batches)
        IN /\ Len(lastEvent.ordered) = Cardinality(elements)
           /\ \A k \in 1..Len(lastEvent.ordered) :
                 LET batch == batches[Nth(elements, k)]
                     list == lastEvent.ordered[k]
                 IN /\ Len(list) > 0
                    /\ Len(list) = Cardinality(SurvivingOps(batch))
                    /\ \A n \in 1..Len(list) :
                          LET op == batch.items[Nth(SurvivingOps(batch), n)]
                          IN /\ list[n].clientSequenceNumber =
                                   op.clientSequenceNumber
                             /\ list[n].contents = op.contents

\* of three batch elements the first holds a RoundTrip only and is not
\* ordered; the second loses its RoundTrip and keeps two ops
C26_Witness ==
    /\ SubmitOpRan /\ HasConnection /\ ~Throttled
    /\ Len(lastEvent.batches) = 3
    /\ SurvivingElements(lastEvent.batches) = {2, 3}
    /\ Len(lastEvent.ordered) = 2
    /\ Len(lastEvent.ordered[1]) = 2
    /\ Len(lastEvent.batches[2].items) = 3

\* the positions in the handler's calls of socket s of the calls named name
CallsAt(s, names) ==
    {i \in 1..Len(disconnectOut[s]) : disconnectOut[s][i].call \in names}

\* C27: the disconnect handler initiates connection.disconnect() before it
\* calls removeClient or emits a room-leave for any clientId, and at most
\* once per clientId; so for every clientId the handler removes from the
\* registry, the orderer connection of that clientId, if it has one, has
\* had disconnect() initiated.
C27_TeardownBeforeRemoval ==
    \A s \in Sockets :
        HandlerRan(s) =>
            /\ \A i \in CallsAt(s, {"connection.disconnect"}) :
                  \A j \in CallsAt(s, {"removeClient", "emitToRoom leave"}) :
                      i < j
            /\ \A r \in Requests :
                  CountCalls(disconnectOut[s], "connection.disconnect",
                             generateClientId(r), NoRoom) <= 1
            /\ \A r \in Requests :
                  /\ ordererConn[r].opened
                  /\ \E j \in CallsAt(s, {"removeClient"}) :
                        disconnectOut[s][j].clientId = generateClientId(r)
                  => /\ ordererConn[r].disconnects = 1
                     /\ CountCalls(disconnectOut[s], "connection.disconnect",
                                   generateClientId(r), NoRoom) = 1

\* C28: when the error listener of a writer's orderer connection reacts,
\* the socket's expiration timer is cleared and no timeout of the socket
\* stays live, the socket is closed and its disconnect handler has run, and
\* the step emits no connect_document_error and no nack; the listener is
\* one-shot: once it has reacted it is never installed again, so it reacts
\* to at most one error of its connection.
C28_OrdererErrorDisconnects ==
    /\ [][\A r \in Requests :
            ordererConn[r].errorListener /\ ~ordererConn'[r].errorListener =>
                LET s == tasks[r].socket
                IN /\ expirationTimer'[s] = NoTimer
                   /\ timeouts'[s] = {}
                   /\ socketState'[s] = "closed"
                   /\ HandlerRan(s)'
                   /\ socketState[s] = "open" =>
                         CountCalls(disconnectOut'[s], "connection.disconnect",
                                    generateClientId(r), NoRoom) = 1
                   /\ connectOut' = connectOut
                   /\ lastEvent'.event = "none"]_vars
    /\ [][\A r \in Requests :
            ordererConn[r].opened /\ ~ordererConn[r].errorListener =>
                ~ordererConn'[r].errorListener]_vars

\* the error of an accepted writer's connection has closed its socket while
\* a timer was pending, and the handler has removed the client
C28_Witness ==
    \E r \in Requests :
        /\ Accepted(r)
        /\ ordererConn[r].opened
        /\ ~ordererConn[r].errorListener
        /\ ordererConn[r].disconnects = 1
        /\ socketState[tasks[r].socket] = "closed"
        /\ disconnectTask[tasks[r].socket].pc = "returned"
        /\ expirationTimer[tasks[r].socket] = NoTimer

\* the registered clients of a document that no failed connect_document of
\* this process has left behind
ClientsNotOfFailedConnects(tenantId, documentId) ==
    {c \in clientRegistry :
        /\ c.tenantId = tenantId
        /\ c.documentId = documentId
        /\ \A r \in Requests :
              Rejected(r) => c.clientId # generateClientId(r)}

\* C29: a connect_document that has failed leaves nothing behind that
\* closes the socket or makes a later valid connect_document fail: no
\* timeout scheduled by the failed connect is live on the socket, and a
\* later connect_document is refused for the client quota only if the
\* document is over quota without the clients failed connects registered.
C29_FailedConnectLeavesSocketUsable ==
    \A r \in Requests :
        Rejected(r) =>
            /\ r \notin timeouts[tasks[r].socket]
            /\ lastEvent = Settled("getClients", r, TRUE)
               /\ connectOut[r][1].body = TooManyClientsError
               => Cardinality(ClientsNotOfFailedConnects("t", "d"))
                     > maxNumberOfClientsPerDocument
                  \/ Cardinality(ClientsNotOfFailedConnects("t", "e"))
                     > maxNumberOfClientsPerDocument

\* a room-join signal has been broadcast for clientId
JoinBroadcast(clientId) ==
    \E r \in Requests :
        \E i \in 1..Len(connectOut[r]) :
            /\ connectOut[r][i].to # "socket"
            /\ IsRoomJoin(connectOut[r][i], clientId)

\* C31: the disconnect handler broadcasts a room-leave signal for a
\* clientId only if a room-join signal was broadcast for that clientId
\* before; in particular it broadcasts none for the clientId of a rejected
\* connect_document.
C31_LeaveOnlyAfterJoin ==
    \A s \in Sockets :
        \A i \in CallsAt(s, {"emitToRoom leave"}) :
            /\ JoinBroadcast(disconnectOut[s][i].clientId)
            /\ ~Rejected(RequestOf(disconnectOut[s][i].clientId))

\* the requests that arrived on socket s
RequestsOn(s) == {r \in Requests : tasks[r].pc # "idle" /\ tasks[r].socket = s}

\* C32: once the disconnect handler of a socket has completed (all its
\* removals fulfilled) and every connect_document of the socket has
\* finished, the client registry holds no clientId minted on the socket.
C32_RegistryCleanAfterDisconnect ==
    \A s \in Sockets :
        /\ disconnectTask[s].pc = "returned"
        /\ \A r \in RequestsOn(s) : tasks[r].pc = "done"
        => \A r \in RequestsOn(s) :
              \A c \in clientRegistry : c.clientId # generateClientId(r)

\* C33: once a socket has disconnected, every orderer connection obtained
\* for it has had disconnect() called, and after the disconnect handler of
\* a socket has run no orderer connection is opened and no expiration
\* timer is armed for the socket.
C33_NothingOpenedAfterDisconnect ==
    [][\A s \in Sockets :
         /\ HandlerRan(s)' =>
               \A r \in RequestsOn(s)' :
                   ordererConn'[r].opened => ordererConn'[r].disconnects >= 1
         /\ HandlerRan(s) =>
               /\ \A r \in RequestsOn(s) :
                     ordererConn'[r].opened = ordererConn[r].opened
               /\ expirationTimer'[s].state = "pending" =>
                     expirationTimer'[s] = expirationTimer[s]
               /\ timeouts'[s] \subseteq timeouts[s]]_vars

\* socket s has a connect_document for the document of roomId that was
\* accepted, or one that is still in progress
HasConnectFor(s, roomId) ==
    \E r \in RequestsOn(s) :
        \/ /\ Accepted(r)
           /\ getRoomId(RoomOf(connectOut[r][1].body.claims)) = roomId
        \/ /\ InProgress(r)
           /\ getRoomId(RoomOf(tasks[r].message.token.claims)) = roomId

\* C34: a connected socket is subscribed to the transport room
\* tenantId/documentId only if a connect_document of the socket for that
\* document was accepted (or is still in progress); a connect_document
\* rejected after the room-join step does not leave the socket subscribed.
C34_SubscribedOnlyIfAccepted ==
    \A s \in Sockets :
        socketState[s] = "open" =>
            \A room \in Rooms :
                getRoomId(room) \in socketRooms[s] =>
                    HasConnectFor(s, getRoomId(room))

\* the accepted requests of clients that are not summarizers and whose
\* token grants SummaryWrite and not DocWrite
SummaryOnlyContainers ==
    {r \in Requests :
        /\ Accepted(r)
        /\ SummaryWrite \in connectOut[r][1].body.claims.scopes
        /\ DocWrite \notin connectOut[r][1].body.claims.scopes
        /\ Len(connectOut[r]) = 2
        /\ connectOut[r][2].body.client.details.type # "summarizer"}

\* C35: a client that is not a summarizer and whose token grants
\* SummaryWrite and not DocWrite is accepted as a reader whatever mode it
\* asks for: the response mode is "read", no orderer connection is opened
\* or stored for it, and each of its submitOps gets exactly the nack (403,
\* InvalidScopeError, "Invalid scope") and nothing is ordered.
C35_SummaryWriteOnlyIsReader ==
    \A r \in SummaryOnlyContainers :
        LET clientId == connectOut[r][1].body.clientId
            s == tasks[r].socket
        IN /\ connectOut[r][1].body.mode = "read"
           /\ ~ordererConn[r].opened
           /\ ~MapHas(connectionsMap[s], clientId)
           /\ SubmitOpRan /\ lastEvent.socket = s
              /\ lastEvent.clientId = clientId =>
                 /\ lastEvent.nacks =
                       <<[code |-> 403, type |-> "InvalidScopeError",
                          message |-> "Invalid scope", retryAfter |-> 0]>>
                 /\ lastEvent.ordered = <<>>

\* such a client asked for mode "write", was accepted, and sent an op
C35_Witness ==
    \E r \in SummaryOnlyContainers :
        /\ SubmitOpRan
        /\ lastEvent.clientId = connectOut[r][1].body.clientId
        /\ HasOrderableOp
        /\ Len(lastEvent.nacks) = 1
        /\ lastEvent.nacks[1].code = 403

\* the clientId of the turn just run was minted by an accepted connect of
\* another socket than the one the turn ran on
ForeignClientId ==
    \E r \in Requests :
        /\ Accepted(r)
        /\ connectOut[r][1].body.clientId = lastEvent.clientId
        /\ tasks[r].socket # lastEvent.socket

\* C36: a submitOp, submitSignal, get_clients or ping that names a clientId
\* minted by an accepted connect of another socket is answered with exactly
\* the nack (400, BadRequestError, "Nonexistent client"); nothing is
\* ordered, nothing is broadcast and no client-list fetch is started.
C36_SocketsAreIsolated ==
    lastEvent.event \in {"submitOp", "submitSignal", "get_clients", "ping"}
    /\ ForeignClientId =>
        /\ lastEvent.nacks =
              <<[code |-> 400, type |-> "BadRequestError",
                 message |-> "Nonexistent client", retryAfter |-> 0]>>
        /\ lastEvent.ordered = <<>>
        /\ lastEvent.metrics = <<>>
        /\ lastEvent.signals = <<>>
        /\ \A query \in getClientsTask[lastEvent.socket] :
              query.clientId # lastEvent.clientId

\* a writer accepted on one socket is pinged from the other socket, which
\* has an accepted client of its own
C36_Witness ==
    /\ lastEvent.event = "ping"
    /\ ForeignClientId
    /\ \E r \in Requests :
          /\ Accepted(r)
          /\ tasks[r].socket = lastEvent.socket
    /\ \E r \in Requests :
          /\ Accepted(r)
          /\ connectOut[r][1].body.mode = "write"
          /\ tasks[r].socket # lastEvent.socket

\* C37: the expiration timer of a socket is armed or replaced only by
\* accepted connects: the timer a socket holds was never armed by a
\* connect_document that ended in connect_document_error.
C37_TimerArmedOnlyByAccepted ==
    \A s \in Sockets :
        expirationTimer[s] # NoTimer =>
            ~Rejected(expirationTimer[s].handle)

\* C38: after any sequence of updateUsedRoutes, timer firings, getGCData
\* (with the load of the initial GC details on its first call) and
\* recordChange, an inactive node has its unreferencedTimestampMs defined,
\* and no call has failed the assertion 0x271 of logErrorIfInactive.
C38_InactiveHasTimestamp ==
    /\ inactive => unreferencedTimestampMs # Undefined
    /\ nodeEvent.threw # "0x271"

\* C39: right after updateUsedRoutes was called with routes that contain ""
\* or "/" the node is not inactive, its unreferencedTimestampMs is undefined
\* and its timer is not running; and as long as the routes last given are
\* such routes the node is not inactive and no timer is pending.
C39_ReferencedUpdateClears ==
    isReferenced(usedRoutes) =>
        /\ ~inactive
        /\ ~unreferencedTimer.hasTimer
        /\ nodeEvent.call = "updateUsedRoutes" =>
              unreferencedTimestampMs = Undefined

\* the call just made was updateUsedRoutes with routes that contain neither
\* "" nor "/" and with a gcTimestamp
UnreferencedUpdateCalled(event, routes) ==
    /\ event.call = "updateUsedRoutes"
    /\ event.gcTimestamp # Undefined
    /\ ~isReferenced(routes)

\* C40 (as stated): after any updateUsedRoutes call with unreferenced routes
\* and a gcTimestamp, if gcTimestamp - unreferencedTimestampMs is at least
\* maxUnreferencedDurationMs the node is inactive; if it is smaller the node
\* is not inactive and the timer runs for the remaining duration.
C40_InactiveOnceDurationElapsed ==
    UnreferencedUpdateCalled(nodeEvent, usedRoutes) =>
        LET elapsed == nodeEvent.gcTimestamp - unreferencedTimestampMs
        IN IF elapsed >= maxUnreferencedDurationMs
           THEN inactive
           ELSE /\ ~inactive
                /\ unreferencedTimer.hasTimer
                /\ unreferencedTimer.msec = maxUnreferencedDurationMs - elapsed

\* C40 (amended): an updateUsedRoutes call with unreferenced routes and a
\* gcTimestamp sets an undefined unreferencedTimestampMs to the gcTimestamp
\* and starts the timer for maxUnreferencedDurationMs; changes nothing of a
\* node that is inactive or whose timer is running; and otherwise marks the
\* node inactive if gcTimestamp - unreferencedTimestampMs is at least
\* maxUnreferencedDurationMs, else starts the timer for the remainder.
C40_ElapsedCheckedWhenNoTimer ==
    [][UnreferencedUpdateCalled(nodeEvent', usedRoutes') =>
         LET gcTimestamp == nodeEvent'.gcTimestamp
             elapsed == gcTimestamp - unreferencedTimestampMs
         IN IF unreferencedTimestampMs = Undefined
            THEN /\ unreferencedTimestampMs' = gcTimestamp
                 /\ inactive' = inactive
                 /\ unreferencedTimer'.hasTimer
                 /\ unreferencedTimer'.msec = maxUnreferencedDurationMs
            ELSE /\ unreferencedTimestampMs' = unreferencedTimestampMs
                 /\ IF inactive \/ unreferencedTimer.hasTimer
                    THEN UNCHANGED <<inactive, unreferencedTimer>>
                    ELSE IF elapsed >= maxUnreferencedDurationMs
                    THEN inactive' /\ UNCHANGED unreferencedTimer
                    ELSE /\ ~inactive'
                         /\ unreferencedTimer'.hasTimer
                         /\ unreferencedTimer'.msec =
                              maxUnreferencedDurationMs - elapsed
                         /\ unreferencedTimer'.due = now + unreferencedTimer'.msec
    ]_vars

\* a node whose timer never ran has been marked inactive by an update whose
\* gcTimestamp is maxUnreferencedDurationMs or more past the timestamp the
\* initial details gave it
C40_Witness ==
    /\ UnreferencedUpdateCalled(nodeEvent, usedRoutes)
    /\ inactive
    /\ unreferencedTimer = Timer(FALSE, 0, 0)
    /\ unreferencedTimestampMs # Undefined
    /\ nodeEvent.gcTimestamp - unreferencedTimestampMs >= maxUnreferencedDurationMs

====
